---- MODULE Spec2Model ----
(***************************************************************************)
(* Assessment session state machine of the healthcare chatbot backend.     *)
(*                                                                         *)
(*  - the in-memory assessment store of app/main.py (`sessions`) with the  *)
(*    handlers /assessment/start, /assessment/answer, /session/context and *)
(*    /assessment/end;                                                     *)
(*  - the legacy chat handler /web/chat of app_web/main.py with its own    *)
(*    store (`web_sessions`);                                              *)
(*  - the PostgreSQL session store of app/auth/assessment_db.py, statement *)
(*    by statement, with concurrent create_session transactions.           *)
(*                                                                         *)
(* Text is a sequence of one-character strings, so that lower(), strip()   *)
(* and the substring test are computed and not assumed.                    *)
(***************************************************************************)
EXTENDS Integers, Sequences, FiniteSets, TLC

\* ------------------------------------------------------------ Python values

\* Python's None.
None == [none |-> TRUE]

\* A Python str, as its sequence of characters.
Str(s) == [str |-> s]

\* Truthiness of a str-or-None value (`if gender`, `if chief_complaint`).
Truthy(v) == v # None /\ v # Str(<<>>)

\* dict.get(k, default)
Get(d, k, default) == IF k \in DOMAIN d THEN d[k] ELSE default

\* d[k] = v on a dict
Put(d, k, v) == [x \in (DOMAIN d) \cup {k} |-> IF x = k THEN v ELSE d[x]]

\* The empty dict.
EmptyDict == [x \in {} |-> None]

UpperChars == <<"A","B","C","D","E","F","G","H","I","J","K","L","M",
                "N","O","P","Q","R","S","T","U","V","W","X","Y","Z">>

LowerChars == <<"a","b","c","d","e","f","g","h","i","j","k","l","m",
                "n","o","p","q","r","s","t","u","v","w","x","y","z">>

LowerChar(c) ==
    IF \E i \in 1..Len(UpperChars) : UpperChars[i] = c
    THEN LowerChars[CHOOSE i \in 1..Len(UpperChars) : UpperChars[i] = c]
    ELSE c

\* str.lower()
Lower(s) == [i \in 1..Len(s) |-> LowerChar(s[i])]

IsSpace(c) == c \in {" ", "\t", "\n"}

RECURSIVE LStrip(_)
LStrip(s) == IF s # <<>> /\ IsSpace(Head(s)) THEN LStrip(Tail(s)) ELSE s

RECURSIVE RStrip(_)
RStrip(s) ==
    IF s # <<>> /\ IsSpace(s[Len(s)]) THEN RStrip(SubSeq(s, 1, Len(s) - 1)) ELSE s

\* str.strip()
Strip(s) == RStrip(LStrip(s))

\* `kw in text` on two strs
Contains(kw, text) ==
    \E i \in 0..(Len(text) - Len(kw)) : SubSeq(text, i + 1, i + Len(kw)) = kw

RECURSIVE Join(_, _)
\* sep.join(parts)
Join(sep, parts) ==
    IF parts = <<>> THEN <<>>
    ELSE IF Len(parts) = 1 THEN parts[1]
    ELSE parts[1] \o sep \o Join(sep, Tail(parts))

\* ------------------------------------------------------------ the catalogs

FEMALE == <<"f","e","m","a","l","e">>

\* questionnaire.json: "questions" (ids, in order)
BaseQuestions == <<"q_gender", "q_current_ailment">>

\* questionnaire.json: "conditional"["q_gender=female"] (ids, in order)
ConditionalFemale == <<"q_pregnant">>

\* decision_tree.json: symptom_decision_tree.symptoms, in order; the entry of
\* "fever" is one whose follow-up question set is missing
DecisionTree ==
    << [symptom_id |-> "chest_pain",
        label |-> "Chest Pain",
        keywords |-> << <<"c","h","e","s","t"," ","p","a","i","n">> >>,
        default_urgency |-> "red_emergency",
        followup_questions |-> <<"chest_q1">>],
       [symptom_id |-> "headache",
        label |-> "Headache",
        keywords |-> << <<"h","e","a","d","a","c","h","e">> >>,
        default_urgency |-> "yellow_doctor_visit",
        followup_questions |-> <<"headache_q1", "headache_q2">>],
       [symptom_id |-> "fever",
        label |-> "Fever",
        keywords |-> << <<"f","e","v","e","r">> >>,
        default_urgency |-> "yellow_doctor_visit"] >>

\* ------------------------------------------------------------- the inputs

TxtFemaleLabel == <<"F","e","m","a","l","e">>
TxtMale == <<"M","a","l","e">>
TxtHeadache == <<"b","a","d"," ","H","e","a","d","a","c","h","e">>
TxtFine == <<"f","e","e","l","i","n","g"," ","f","i","n","e">>
TxtFever == <<"h","i","g","h"," ","f","e","v","e","r">>
TxtYes == <<"y","e","s">>

\* answer_json payloads a client sends for each question id
PayloadsFor(qid) ==
    CASE qid = "q_gender" ->
            { [type |-> "single_choice", selected_option_label |-> Str(TxtFemaleLabel)],
              [type |-> "single_choice", selected_option_label |-> Str(TxtMale)] }
      [] qid = "q_current_ailment" ->
            { [type |-> "text", value |-> Str(TxtHeadache)],
              [type |-> "text", value |-> Str(TxtFine)],
              [type |-> "text", value |-> Str(<<>>)] }
      [] OTHER ->
            { [type |-> "text", value |-> Str(TxtYes)] }

\* question ids a client submits
QuestionIds ==
    {"q_gender", "q_current_ailment", "q_pregnant", "headache_q1", "headache_q2"}

\* session ids: what uuid4() returns and what a client sends
SessionIds == {"s1"}

UserChoices == {"new_user"}

NoQuestion == "<none>"

\* "no index": the handler did not get as far as computing next_index
NoIndex == -1

VARIABLES
    sessions,                \* app/main.py `sessions`: session_id -> dict
    current_context,         \* app/main.py global current_context
    current_session_id,      \* app/main.py global current_session_id
    issued,                  \* session ids uuid4() has returned so far
    started_by,              \* session_id -> the user whose request started it
    ended,                   \* session ids an end request has removed a session of
    inflight,                \* the submit_answer request each worker thread is in
    round_base,              \* `sessions` when the requests now in flight began
    session_store,           \* app/main.py `session_store`
    followup_sessions,       \* app/main.py `followup_sessions`
    followup_store,          \* app/main.py `followup_store`
    conversation_history,    \* app/main.py `conversation_history`
    web_sessions,            \* app_web/main.py `web_sessions`
    web_current_context,     \* app_web/main.py global web_current_context
    web_current_session_id,  \* app_web/main.py global web_current_session_id
    web_conversation_history,\* app_web/main.py global web_conversation_history
    web_submitted,           \* per session id, the last questionnaire context posted
    routes_sessions,         \* app/web/web_routes.py `web_sessions`
    web_followup_sessions,   \* app_web/main.py `web_followup_sessions`
    db,                      \* assessment_sessions, committed rows: session_id -> row
    tx,                      \* the open create_session transaction of each connection
    db_next,                 \* the next session_id gen_random_uuid() returns
    chat_sessions,           \* table chat_sessions: session_id -> row
    chat_messages,           \* table chat_messages: session_id -> rows by created_at
    chat_now,                \* the database clock NOW() reads
    chat_inflight,           \* the /chat/message request each server process is in
    resp                     \* the last call: request, handler locals, response

concVars == <<inflight, round_base>>

auxVars == <<session_store, followup_sessions, followup_store, conversation_history>>

memVars == <<sessions, current_context, current_session_id, issued, started_by, ended,
             concVars, auxVars>>

routesVars == <<routes_sessions>>

webFollowupVars == <<web_followup_sessions>>

webVars == <<web_sessions, web_current_context, web_current_session_id,
             web_conversation_history, web_submitted, routesVars,
             webFollowupVars>>

chatVars == <<chat_sessions, chat_messages, chat_now, chat_inflight>>

dbVars == <<db, tx, db_next, chatVars>>

vars == <<memVars, webVars, dbVars, resp>>

\* A global that has not been assigned yet.
Unset == [unset |-> TRUE]

\* --------------------------------------------------------- pure functions

\* The first (symptom, keyword) hit, symptoms and keywords in catalog order.
\* the dict detect_symptom returns for keyword j of symptom i
Match(symptoms, i, j) ==
    [symptom_id |-> symptoms[i].symptom_id,
     label |-> symptoms[i].label,
     matched_keyword |-> symptoms[i].keywords[j],
     default_urgency |-> symptoms[i].default_urgency]

\* the loops of detect_symptom ending with the first symptom of the list as a
\* default where no keyword hits
MatchFrom_DefaultsToFirst(symptoms, complaint_lower, i, j) ==
    LET hits == { p \in (1..Len(symptoms)) \X (1..2) :
                    /\ p[2] <= Len(symptoms[p[1]].keywords)
                    /\ Contains(Lower(symptoms[p[1]].keywords[p[2]]), complaint_lower) }
    IN IF hits # {}
       THEN LET first == CHOOSE p \in hits : \A q \in hits :
                             p[1] < q[1] \/ (p[1] = q[1] /\ p[2] <= q[2])
            IN Match(symptoms, first[1], first[2])
       ELSE IF symptoms # <<>> THEN Match(symptoms, 1, 1) ELSE None

\* detect_symptom: the two nested loops, from keyword j of symptom i on
RECURSIVE MatchFrom(_, _, _, _)
MatchFrom(symptoms, complaint_lower, i, j) ==
    IF i > Len(symptoms) THEN None
    ELSE IF j > Len(symptoms[i].keywords)
         THEN MatchFrom(symptoms, complaint_lower, i + 1, 1)
    ELSE IF Contains(Lower(symptoms[i].keywords[j]), complaint_lower)
         THEN Match(symptoms, i, j)
         ELSE MatchFrom(symptoms, complaint_lower, i, j + 1)

\* detect_symptom in which a later hit replaces an earlier one
DetectSymptomIn_LaterOverrides(symptoms, complaint_text) ==
    IF ~Truthy(complaint_text) THEN None
    ELSE LET complaint_lower == Strip(Lower(complaint_text.str))
             hits == { p \in (1..Len(symptoms)) \X (1..2) :
                         /\ p[2] <= Len(symptoms[p[1]].keywords)
                         /\ Contains(Lower(symptoms[p[1]].keywords[p[2]]),
                                     complaint_lower) }
         IN IF hits = {} THEN None
            ELSE LET last == CHOOSE p \in hits : \A q \in hits :
                                 q[1] < p[1] \/ (q[1] = p[1] /\ q[2] <= p[2])
                 IN Match(symptoms, last[1], last[2])

\* detect_symptom on the symptoms list of a decision tree
DetectSymptomIn(symptoms, complaint_text) ==
    IF ~Truthy(complaint_text) THEN None
    ELSE MatchFrom(symptoms, Strip(Lower(complaint_text.str)), 1, 1)

detect_symptom(complaint_text) == DetectSymptomIn(DecisionTree, complaint_text)

\* the extraction with None as the default of the plain value
ExtractAnswerValue_DefaultNone(answer_data) ==
    LET type == IF "type" \in DOMAIN answer_data THEN answer_data["type"] ELSE "" IN
    IF type = "single_choice"
    THEN Get(answer_data, "selected_option_label",
             Get(answer_data, "selected_option_id", Get(answer_data, "value", None)))
    ELSE IF type = "multi_choice"
         THEN Str(Join(<<",", " ">>, Get(answer_data, "selected_option_labels", <<>>)))
    ELSE Get(answer_data, "value", None)

\* submit_answer: "Extract answer value based on type"
ExtractAnswerValue(answer_data) ==
    LET type == IF "type" \in DOMAIN answer_data THEN answer_data["type"] ELSE "" IN
    IF type = "number" THEN Get(answer_data, "value", None)
    ELSE IF type = "single_choice"
         THEN Get(answer_data, "selected_option_label",
                  Get(answer_data, "selected_option_id",
                      Get(answer_data, "value", None)))
    ELSE IF type = "multi_choice"
         THEN Str(Join(<<",", " ">>, Get(answer_data, "selected_option_labels", <<>>)))
    ELSE Get(answer_data, "value", Str(<<>>))

\* submit_answer: the question list of this request
AllQuestions(answers) ==
    LET gender == Get(answers, "q_gender", None) IN
    IF Truthy(gender) /\ Lower(gender.str) = FEMALE
    THEN BaseQuestions \o ConditionalFemale
    ELSE BaseQuestions

\* next((s for s in symptoms if s["symptom_id"] == symptom_id), None)
SymptomData(symptom_id) ==
    IF \E i \in 1..Len(DecisionTree) : DecisionTree[i].symptom_id = symptom_id
    THEN DecisionTree[CHOOSE i \in 1..Len(DecisionTree) :
                        /\ DecisionTree[i].symptom_id = symptom_id
                        /\ \A k \in 1..(i - 1) : DecisionTree[k].symptom_id # symptom_id]
    ELSE None

\* ------------------------------------------------------------------ Init

\* The record of one call: the request's session and question id, the response's
\* status and question, and the handler's locals phase, all_questions, next_index
\* and answer_value, and the user the request came from ("": not recorded).
Call(op, session_id, question_id, status, question) ==
    [op |-> op, session_id |-> session_id, question_id |-> question_id,
     status |-> status, question |-> question,
     phase |-> "", all_questions |-> <<>>, next_index |-> NoIndex,
     answer_value |-> None, caller |-> ""]

\* threads of the pool that runs the synchronous route handlers
Threads == {"t1", "t2"}

\* a thread with no request
IdleThread == [pc |-> "idle"]

\* connections that run create_session concurrently
DbProcs == {"p1", "p2"}

Users == {"u1", "u2"}

\* rows the table assessment_sessions may hold
MaxRows == 2

\* server processes that serve /chat/* on the one database
ChatWorkers == {"w1", "w2"}

\* a server process that is in no /chat/message request
IdleRequest == [pc |-> "idle", session_id |-> "", user_id |-> "", text |-> "",
                saved_at |-> 0, history |-> <<>>]

\* a connection with no open transaction
IdleTx == [pc |-> "idle", user_id |-> "", snapshot |-> {}, expired |-> {},
           inserted |-> 0]

InitStores ==
    /\ sessions = EmptyDict
    /\ current_context = Unset
    /\ current_session_id = Unset
    /\ issued = {}
    /\ started_by = EmptyDict
    /\ ended = {}
    /\ inflight = [t \in Threads |-> IdleThread]
    /\ round_base = EmptyDict
    /\ session_store = EmptyDict
    /\ followup_sessions = EmptyDict
    /\ followup_store = EmptyDict
    /\ conversation_history = EmptyDict
    /\ web_sessions = EmptyDict
    /\ web_current_context = None
    /\ web_current_session_id = None
    /\ web_conversation_history = EmptyDict
    /\ web_submitted = EmptyDict
    /\ routes_sessions = EmptyDict
    /\ web_followup_sessions = EmptyDict
    /\ db = EmptyDict
    /\ tx = [p \in DbProcs |-> IdleTx]
    /\ db_next = 1
    /\ chat_sessions = EmptyDict
    /\ chat_messages = EmptyDict
    /\ chat_now = 0
    /\ chat_inflight = [w \in ChatWorkers |-> IdleRequest]

Init ==
    /\ InitStores
    /\ resp = Call("init", "", NoQuestion, "", NoQuestion)

\* ------------------------------------------ app/main.py: in-memory assessment

\* GET /assessment/start, uuid4() drawing from session_ids
StartAssessment(session_ids) ==
    \E session_id \in session_ids \ issued, caller \in Users :
        /\ issued' = issued \cup {session_id}
        /\ started_by' = Put(started_by, session_id, caller)
        /\ sessions' = Put(sessions, session_id,
               [answers |-> EmptyDict,
                current_index |-> 0,
                total_questions |-> Len(BaseQuestions),
                phase |-> "questionnaire",
                followup_questions |-> None,
                followup_index |-> 0,
                detected_symptom |-> None])
        /\ resp' = [Call("start_assessment", session_id, NoQuestion, "ok",
                         BaseQuestions[1]) EXCEPT !.caller = caller]
        /\ UNCHANGED <<current_context, current_session_id, ended, webVars, dbVars, concVars, auxVars>>

start_assessment == StartAssessment(SessionIds)

\* submit_answer: the handler's result, as the session dict it leaves behind and
\* the AnswerResponse (status defaults to "next" when a question is returned).
Result(s, status, question, all_questions, next_index) ==
    [session |-> s, status |-> status, question |-> question,
     all_questions |-> all_questions, next_index |-> next_index]

\* A transition that records the follow-up phase but answers "completed", leaving
\* the first follow-up question to a further call.
EnterFollowup_ExtraRoundTrip(s, detected, question_keys, all_questions, next_index) ==
    Result(Put(Put(Put(Put(Put(s, "phase", "followup"),
                           "followup_questions", question_keys),
                       "followup_keys", question_keys),
                   "followup_index", 0),
               "detected_symptom", detected),
           "completed", NoQuestion, all_questions, next_index)

\* submit_answer: "Update session to follow-up phase", "Return first follow-up
\* question"
EnterFollowup(s, detected, question_keys, all_questions, next_index) ==
    LET s1 == Put(s, "phase", "followup")
        s2 == Put(s1, "followup_questions", question_keys)
        s3 == Put(s2, "followup_keys", question_keys)
        s4 == Put(s3, "followup_index", 0)
        s5 == Put(s4, "detected_symptom", detected)
    IN IF question_keys = <<>>
       THEN \* IndexError: question_keys[0]
            Result(s5, "exception", NoQuestion, all_questions, next_index)
       ELSE Result(s5, "next", question_keys[1], all_questions, next_index)

\* submit_answer: "No symptom detected or no follow-up questions - end here"
QuestionnaireCompleted(s, all_questions, next_index) ==
    Result(s, "completed", NoQuestion, all_questions, next_index)

\* A resolution that writes the index back before it tests for exhaustion.
QuestionnaireResolve_AlwaysAdvances(s, all_questions, current_index) ==
    LET next_index == current_index + 1
        advanced == Put(s, "current_index", next_index)
    IN IF next_index >= Len(all_questions)
       THEN QuestionnaireCompleted(advanced, all_questions, next_index)
       ELSE Result(advanced, "next", all_questions[next_index + 1], all_questions,
                   next_index)

\* submit_answer, questionnaire branch from "Find next question" on: `s` is the
\* session dict as it is now, all_questions and current_index are the handler's
\* locals.
QuestionnaireResolve(s, all_questions, current_index) ==
    LET answers == s["answers"]
        next_index == current_index + 1
        chief_complaint == Get(answers, "q_current_ailment", Str(<<>>))
        detected == IF Truthy(chief_complaint) THEN detect_symptom(chief_complaint)
                    ELSE None
        symptom_data == IF detected = None THEN None
                        ELSE SymptomData(detected.symptom_id)
    IN
    IF next_index >= Len(all_questions)
    THEN IF /\ detected # None
            /\ symptom_data # None
            /\ "followup_questions" \in DOMAIN symptom_data
         THEN EnterFollowup(s, detected, symptom_data.followup_questions,
                            all_questions, next_index)
         ELSE QuestionnaireCompleted(s, all_questions, next_index)
    ELSE Result(Put(s, "current_index", next_index), "next",
                all_questions[next_index + 1], all_questions, next_index)

\* submit_answer, questionnaire branch: `s` is the session dict after the answer
\* has been stored.
QuestionnaireStep(s) ==
    IF "current_index" \notin DOMAIN s
    THEN \* KeyError: sessions[session_id]["current_index"]
         Result(s, "exception", NoQuestion, AllQuestions(s["answers"]), NoIndex)
    ELSE QuestionnaireResolve(s, AllQuestions(s["answers"]), s["current_index"])

\* submit_answer, follow-up branch from "Move to next follow-up question" on:
\* question_keys and current_index are the handler's locals.
FollowupResolve(s, question_keys, current_index) ==
    LET next_index == current_index + 1
    IN
    IF next_index >= Len(question_keys)
    THEN Result(s, "completed", NoQuestion, <<>>, next_index)
    ELSE Result(Put(s, "followup_index", next_index), "next",
                question_keys[next_index + 1], <<>>, next_index)

\* submit_answer, follow-up branch.
FollowupStep(s) ==
    IF "followup_keys" \notin DOMAIN s
    THEN \* KeyError: sessions[session_id]["followup_keys"]
         Result(s, "exception", NoQuestion, <<>>, NoIndex)
    ELSE FollowupResolve(s, s["followup_keys"], s["followup_index"])

\* A store that keeps the value a question id already has.
AnswerStep_KeepsFirstValue(s, question_id, answer_json) ==
    LET answer_value == ExtractAnswerValue(answer_json)
        stored == IF question_id \in DOMAIN s["answers"] THEN s
                  ELSE [s EXCEPT !["answers"] = Put(@, question_id, answer_value)]
        phase == Get(stored, "phase", "questionnaire")
        r == IF phase = "questionnaire" THEN QuestionnaireStep(stored)
             ELSE FollowupStep(stored)
    IN [session |-> r.session,
        call |-> [status |-> r.status, question |-> r.question, phase |-> phase,
                  all_questions |-> r.all_questions, next_index |-> r.next_index,
                  answer_value |-> answer_value]]

\* submit_answer on an existing session dict: store the answer, then resolve.
AnswerStep(s, question_id, answer_json) ==
    LET answer_value == ExtractAnswerValue(answer_json)
        stored == [s EXCEPT !["answers"] = Put(@, question_id, answer_value)]
        phase == Get(stored, "phase", "questionnaire")
        r == IF phase = "questionnaire" THEN QuestionnaireStep(stored)
             ELSE FollowupStep(stored)
    IN [session |-> r.session,
        call |-> [status |-> r.status, question |-> r.question, phase |-> phase,
                  all_questions |-> r.all_questions, next_index |-> r.next_index,
                  answer_value |-> answer_value]]

\* POST /assessment/answer, for requests naming a session of session_ids and a
\* question of question_ids
SubmitAnswerOf(session_ids, requests) ==
    \E session_id \in session_ids, request \in requests, caller \in Users :
       LET question_id == request[1]
           answer_json == request[2]
       IN
        /\ IF session_id \notin DOMAIN sessions
           THEN /\ resp' = [Call("submit_answer", session_id, question_id, "error",
                                 NoQuestion) EXCEPT !.caller = caller]
                /\ UNCHANGED sessions
           ELSE LET r == AnswerStep(sessions[session_id], question_id, answer_json) IN
                /\ sessions' = [sessions EXCEPT ![session_id] = r.session]
                /\ resp' = [op |-> "submit_answer", session_id |-> session_id,
                            question_id |-> question_id, caller |-> caller] @@ r.call
        /\ UNCHANGED <<current_context, current_session_id, issued, started_by, ended,
                       webVars, dbVars, concVars, auxVars>>

\* the (question_id, answer_json) pairs of the requests for the question ids
RequestsFor(question_ids) ==
    UNION { { <<question_id, answer_json>> : answer_json \in PayloadsFor(question_id) } :
            question_id \in question_ids }

SubmitAnswer(session_ids, question_ids) ==
    SubmitAnswerOf(session_ids, RequestsFor(question_ids))

submit_answer == SubmitAnswer(SessionIds, QuestionIds)

\* cleanup_session, on the stores of the model
cleanup_session(session_id) ==
    [x \in (DOMAIN sessions) \ {session_id} |-> sessions[x]]

\* POST /assessment/end
\* cleanup_session: `del store[session_id]` where the id is in the store
Without(store, session_id) == [x \in (DOMAIN store) \ {session_id} |-> store[x]]

\* cleanup_session forgetting the follow-up session store
CleanupFound_SessionsOnly(session_id) == session_id \in DOMAIN sessions

\* cleanup_session: `found`
CleanupFound(session_id) ==
    \/ session_id \in DOMAIN sessions
    \/ session_id \in DOMAIN conversation_history
    \/ session_id \in DOMAIN session_store
    \/ session_id \in DOMAIN followup_sessions
    \/ session_id \in DOMAIN followup_store

EndAssessment(session_ids) ==
    \E session_id \in session_ids :
        /\ sessions' = cleanup_session(session_id)
        /\ conversation_history' = Without(conversation_history, session_id)
        /\ session_store' = Without(session_store, session_id)
        /\ followup_sessions' = Without(followup_sessions, session_id)
        /\ followup_store' = Without(followup_store, session_id)
        /\ ended' = IF session_id \in DOMAIN sessions THEN ended \cup {session_id}
                    ELSE ended
        /\ resp' = Call("end_assessment", session_id, NoQuestion,
                        IF CleanupFound(session_id) THEN "ended" ELSE "not_found",
                        NoQuestion)
        /\ UNCHANGED <<current_context, current_session_id, issued, started_by,
                       webVars, dbVars, concVars>>

end_assessment == EndAssessment(SessionIds)

\* questionnaire_context dicts a client posts ({} is falsy: "not provided")
ContextInputs == { EmptyDict, [q_current_ailment |-> Str(TxtHeadache)] }

\* POST /session/context
receive_context ==
    \E session_id \in SessionIds, user_choice \in UserChoices,
       questionnaire_context \in ContextInputs :
        /\ IF questionnaire_context # EmptyDict
           THEN /\ current_context' = [session_id |-> session_id,
                                       user_choice |-> user_choice,
                                       answers |-> questionnaire_context]
                /\ current_session_id' = session_id
                /\ resp' = Call("receive_context", session_id, NoQuestion, "llm",
                                NoQuestion)
                /\ UNCHANGED sessions
           ELSE /\ current_session_id' = session_id
                /\ sessions' = Put(sessions, session_id,
                                   [answers |-> EmptyDict, user_choice |-> user_choice])
                /\ resp' = Call("receive_context", session_id, NoQuestion,
                                "predefined", BaseQuestions[1])
                /\ UNCHANGED current_context
        /\ UNCHANGED <<issued, started_by, ended, webVars, dbVars, concVars, auxVars>>

Next ==
    \/ start_assessment
    \/ submit_answer
    \/ end_assessment
    \/ receive_context

Spec == Init /\ [][Next]_vars

\* ------------------------------ app/main.py: two sessions side by side

\* two session ids uuid4() may return
PairSessionIds == {"s1", "s2"}

\* the question the requests of the two sessions answer
PairQuestionIds == {"q_current_ailment"}

start_assessment_pair == StartAssessment(PairSessionIds)

submit_answer_pair == SubmitAnswer(PairSessionIds, PairQuestionIds)

end_assessment_pair == EndAssessment(PairSessionIds)

NextPair ==
    \/ start_assessment_pair
    \/ submit_answer_pair
    \/ end_assessment_pair

SpecPair == Init /\ [][NextPair]_vars

\* ------------------ app/main.py: submit_answer on two threads of the pool

\* submit_answer up to "Store answer": the session check and the write of the
\* answer. The first request of a round remembers the store it started from.
submit_answer_store ==
    \E t \in Threads, session_id \in SessionIds, question_id \in PairQuestionIds :
       \E answer_json \in PayloadsFor(question_id) :
        /\ inflight[t].pc = "idle"
        /\ round_base' = IF \A u \in Threads : inflight[u].pc = "idle"
                         THEN sessions ELSE round_base
        /\ IF session_id \notin DOMAIN sessions
           THEN /\ inflight' = [inflight EXCEPT ![t] =
                        [pc |-> "done", session_id |-> session_id,
                         question_id |-> question_id, answer_json |-> answer_json,
                         status |-> "error", question |-> NoQuestion]]
                /\ resp' = Call("submit_answer", session_id, question_id, "error",
                                NoQuestion)
                /\ UNCHANGED sessions
           ELSE /\ sessions' = [sessions EXCEPT ![session_id]["answers"] =
                        Put(@, question_id, ExtractAnswerValue(answer_json))]
                /\ inflight' = [inflight EXCEPT ![t] =
                        [pc |-> "stored", session_id |-> session_id,
                         question_id |-> question_id, answer_json |-> answer_json]]
                /\ UNCHANGED resp
        /\ UNCHANGED <<current_context, current_session_id, issued, started_by, ended,
                       webVars, dbVars, auxVars>>

\* submit_answer from "Get session phase" to "Find next question": the reads of
\* the phase, the question list and the index into the handler's locals
submit_answer_read ==
    \E t \in Threads :
        /\ inflight[t].pc = "stored"
        /\ LET s == sessions[inflight[t].session_id]
               phase == Get(s, "phase", "questionnaire")
               missing == IF phase = "questionnaire" THEN "current_index" \notin DOMAIN s
                          ELSE "followup_keys" \notin DOMAIN s
           IN IF missing
              THEN \* KeyError
                   /\ inflight' = [inflight EXCEPT ![t] =
                         [pc |-> "done", session_id |-> @.session_id,
                          question_id |-> @.question_id, answer_json |-> @.answer_json,
                          status |-> "exception", question |-> NoQuestion]]
              ELSE /\ inflight' = [inflight EXCEPT ![t] =
                         [pc |-> "read", session_id |-> @.session_id,
                          question_id |-> @.question_id, answer_json |-> @.answer_json,
                          phase |-> phase,
                          all_questions |-> IF phase = "questionnaire"
                                            THEN AllQuestions(s["answers"])
                                            ELSE s["followup_keys"],
                          current_index |-> IF phase = "questionnaire"
                                            THEN s["current_index"]
                                            ELSE s["followup_index"]]]
        /\ UNCHANGED <<sessions, round_base, resp, current_context, current_session_id,
                       issued, started_by, ended, webVars, dbVars, auxVars>>

\* submit_answer from the exhaustion test to the return: the writes of the index
\* or of the follow-up phase, and the response
submit_answer_resolve ==
    \E t \in Threads :
        /\ inflight[t].pc = "read"
        /\ LET session_id == inflight[t].session_id
               s == sessions[session_id]
               r == IF inflight[t].phase = "questionnaire"
                    THEN QuestionnaireResolve(s, inflight[t].all_questions,
                                              inflight[t].current_index)
                    ELSE FollowupResolve(s, inflight[t].all_questions,
                                         inflight[t].current_index)
           IN /\ sessions' = [sessions EXCEPT ![session_id] = r.session]
              /\ inflight' = [inflight EXCEPT ![t] =
                    [pc |-> "done", session_id |-> session_id,
                     question_id |-> @.question_id, answer_json |-> @.answer_json,
                     status |-> r.status, question |-> r.question]]
              /\ resp' = [op |-> "submit_answer", session_id |-> session_id,
                          question_id |-> inflight[t].question_id, caller |-> "",
                          status |-> r.status, question |-> r.question,
                          phase |-> inflight[t].phase,
                          all_questions |-> r.all_questions,
                          next_index |-> r.next_index,
                          answer_value |-> ExtractAnswerValue(inflight[t].answer_json)]
        /\ UNCHANGED <<round_base, current_context, current_session_id, issued,
                       started_by, ended, webVars, dbVars, auxVars>>

\* the responses of the round have been sent: the threads take new requests
submit_answer_return ==
    /\ \E t \in Threads : inflight[t].pc = "done"
    /\ \A t \in Threads : inflight[t].pc \in {"idle", "done"}
    /\ inflight' = [t \in Threads |-> IdleThread]
    /\ UNCHANGED <<sessions, round_base, resp, current_context, current_session_id,
                   issued, started_by, ended, webVars, dbVars, auxVars>>

NextThreads ==
    \/ start_assessment
    \/ submit_answer_store
    \/ submit_answer_read
    \/ submit_answer_resolve
    \/ submit_answer_return

SpecThreads == Init /\ [][NextThreads]_vars

\* ------------------- app/main.py: a session driven by start, answer and end

NextIndex ==
    \/ start_assessment
    \/ submit_answer
    \/ end_assessment

SpecIndex == Init /\ [][NextIndex]_vars

\* ------ app/main.py: the assignments of the follow-up transition, one at a time

\* submit_answer, "Update session to follow-up phase": the first of the five
\* assignments, sessions[session_id]["phase"] = "followup"; the thread may be
\* suspended before the next one
submit_answer_enter_phase ==
    \E t \in Threads :
        /\ inflight[t].pc = "read"
        /\ inflight[t].phase = "questionnaire"
        /\ LET session_id == inflight[t].session_id
               r == QuestionnaireResolve(sessions[session_id], inflight[t].all_questions,
                                         inflight[t].current_index)
           IN /\ Get(r.session, "phase", "questionnaire") = "followup"
              /\ sessions' = [sessions EXCEPT ![session_id] = Put(@, "phase", "followup")]
              /\ inflight' = [inflight EXCEPT ![t] =
                    [pc |-> "entering", session_id |-> session_id,
                     question_id |-> @.question_id, answer_json |-> @.answer_json,
                     result |-> r]]
        /\ UNCHANGED <<round_base, resp, current_context, current_session_id, issued,
                       started_by, ended, webVars, dbVars, auxVars>>

\* submit_answer: the other four assignments (followup_questions, followup_keys,
\* followup_index, detected_symptom) and the first follow-up question
submit_answer_enter_rest ==
    \E t \in Threads :
        /\ inflight[t].pc = "entering"
        /\ LET session_id == inflight[t].session_id
               r == inflight[t].result
               written == Put(Put(Put(Put(sessions[session_id],
                              "followup_questions", r.session["followup_questions"]),
                              "followup_keys", r.session["followup_keys"]),
                              "followup_index", 0),
                              "detected_symptom", r.session["detected_symptom"])
           IN /\ sessions' = [sessions EXCEPT ![session_id] = written]
              /\ inflight' = [inflight EXCEPT ![t] =
                    [pc |-> "done", session_id |-> session_id,
                     question_id |-> @.question_id, answer_json |-> @.answer_json,
                     status |-> r.status, question |-> r.question]]
              /\ resp' = [op |-> "submit_answer", session_id |-> session_id,
                          question_id |-> inflight[t].question_id, caller |-> "",
                          status |-> r.status, question |-> r.question,
                          phase |-> "questionnaire",
                          all_questions |-> r.all_questions,
                          next_index |-> r.next_index,
                          answer_value |-> ExtractAnswerValue(inflight[t].answer_json)]
        /\ UNCHANGED <<round_base, current_context, current_session_id, issued,
                       started_by, ended, webVars, dbVars, auxVars>>

NextEnter ==
    \/ start_assessment
    \/ submit_answer_store
    \/ submit_answer_read
    \/ submit_answer_resolve
    \/ submit_answer_enter_phase
    \/ submit_answer_enter_rest
    \/ submit_answer_return

SpecEnter == Init /\ [][NextEnter]_vars

\* ------------- app/main.py: a complaint whose symptom has no follow-up set

\* the requests of the questionnaire and a chief complaint that names "fever"
FeverRequests ==
    RequestsFor({"q_gender", "q_current_ailment"})
        \cup { <<"q_current_ailment", [type |-> "text", value |-> Str(TxtFever)]>> }

submit_answer_fever == SubmitAnswerOf(SessionIds, FeverRequests)

NextFever ==
    \/ start_assessment
    \/ submit_answer_fever
    \/ end_assessment

SpecFever == Init /\ [][NextFever]_vars

\* ---------------- app/main.py: the report and follow-up stores, and the end

\* session_id values of a ReportRequest; "": no session_id
ReportSessionIds == SessionIds \cup {""}

\* responses of a ReportRequest, as the list of its question texts
ReportResponses == { <<>>, <<"Gender?">> }

\* symptom arguments of /followup/start
FollowupSymptoms == {"headache", "fever", "cough"}

\* receive_report: the write to session_store; the report the language model
\* writes is part of the response only
receive_report ==
    \E req_session_id \in ReportSessionIds, responses \in ReportResponses :
      \E session_id \in IF req_session_id = "" THEN SessionIds \ issued
                        ELSE {req_session_id} :
        /\ session_store' = Put(session_store, session_id, responses)
        /\ issued' = IF req_session_id = "" THEN issued \cup {session_id} ELSE issued
        /\ resp' = Call("receive_report", session_id, NoQuestion, "ok", NoQuestion)
        /\ UNCHANGED <<sessions, current_context, current_session_id, started_by, ended,
                       followup_sessions, followup_store, conversation_history,
                       webVars, dbVars, concVars>>

\* /followup/report
receive_followup_report ==
    \E req_session_id \in ReportSessionIds, responses \in ReportResponses :
      \E session_id \in IF req_session_id = "" THEN SessionIds \ issued
                        ELSE {req_session_id} :
        /\ followup_store' = Put(followup_store, session_id, responses)
        /\ issued' = IF req_session_id = "" THEN issued \cup {session_id} ELSE issued
        /\ resp' = Call("receive_followup_report", session_id, NoQuestion, "ok",
                        NoQuestion)
        /\ UNCHANGED <<sessions, current_context, current_session_id, started_by, ended,
                       session_store, followup_sessions, conversation_history,
                       webVars, dbVars, concVars>>

\* /followup/start
start_followup ==
    \E symptom \in FollowupSymptoms :
      LET symptom_data == SymptomData(symptom)
          failed(status) ==
              /\ resp' = Call("start_followup", "", NoQuestion, status, NoQuestion)
              /\ UNCHANGED <<followup_sessions, issued>>
      IN
        /\ IF symptom_data = None THEN failed("error")
           ELSE IF "followup_questions" \notin DOMAIN symptom_data
           THEN \* KeyError
                failed("exception")
           ELSE IF symptom_data.followup_questions = <<>> THEN failed("error")
           ELSE \E session_id \in SessionIds \ issued :
                  /\ followup_sessions' =
                        Put(followup_sessions, session_id,
                            [symptom |-> symptom,
                             symptom_label |-> symptom_data.label,
                             current_index |-> 0,
                             question_keys |-> symptom_data.followup_questions,
                             all_questions |-> symptom_data.followup_questions,
                             responses |-> <<>>])
                  /\ issued' = issued \cup {session_id}
                  /\ resp' = Call("start_followup", session_id, NoQuestion, "ok",
                                  symptom_data.followup_questions[1])
        /\ UNCHANGED <<sessions, current_context, current_session_id, started_by, ended,
                       session_store, followup_store, conversation_history,
                       webVars, dbVars, concVars>>

submit_answer_complaint == SubmitAnswer(SessionIds, PairQuestionIds)

NextEnd ==
    \/ start_assessment
    \/ submit_answer_complaint
    \/ receive_report
    \/ receive_followup_report
    \/ start_followup
    \/ end_assessment

SpecEnd == Init /\ [][NextEnd]_vars

\* ------- app/main.py and app_web/main.py: the standalone follow-up sessions

\* answers a client sends to /followup/answer
FollowupAnswers == {"yes", "no"}

\* most responses a follow-up session is followed for
MaxResponses == 4

\* the question of the "complete" marker
CompleteMarker == "complete"

\* app/main.py: the fields of the class the name AnswerRequest is bound to when
\* the handlers are defined (the second of the two classes of that name)
AnswerRequestFields == {"session_id", "question_id", "question_text", "answer_json"}

\* /followup/answer of app/main.py
answer_followup ==
    \E session_id \in SessionIds, answer \in FollowupAnswers :
        /\ IF session_id \notin DOMAIN followup_sessions
           THEN /\ resp' = Call("answer_followup", session_id, NoQuestion, "error",
                                NoQuestion)
                /\ UNCHANGED followup_sessions
           ELSE LET session == followup_sessions[session_id]
                    current_index == session.current_index
                    question_keys == session.question_keys
                IN IF \/ current_index >= Len(question_keys)
                      \/ {"question", "answer"} \ AnswerRequestFields # {}
                   THEN \* IndexError: question_keys[current_index];
                        \* AttributeError: req.question, req.answer
                        /\ resp' = Call("answer_followup", session_id, NoQuestion,
                                        "exception", NoQuestion)
                        /\ UNCHANGED followup_sessions
                   ELSE /\ followup_sessions' =
                              [followup_sessions EXCEPT ![session_id] =
                                  [session EXCEPT
                                      !.responses = Append(@, answer),
                                      !.current_index = current_index + 1]]
                        /\ resp' = Call("answer_followup", session_id,
                                        question_keys[current_index + 1], "ok",
                                        IF current_index + 1 >= Len(question_keys)
                                        THEN CompleteMarker
                                        ELSE question_keys[current_index + 2])
        /\ UNCHANGED <<sessions, current_context, current_session_id, issued, started_by,
                       ended, session_store, followup_store, conversation_history,
                       webVars, dbVars, concVars>>

\* /web/followup/start of app_web/main.py
web_start_followup ==
    \E symptom \in FollowupSymptoms :
      LET symptom_data == SymptomData(symptom)
          failed(status) ==
              /\ resp' = Call("web_start_followup", "", NoQuestion, status, NoQuestion)
              /\ UNCHANGED web_followup_sessions
      IN
        /\ IF symptom_data = None THEN failed("error")
           ELSE IF "followup_questions" \notin DOMAIN symptom_data
           THEN \* KeyError
                failed("exception")
           ELSE IF symptom_data.followup_questions = <<>> THEN failed("error")
           ELSE \E session_id \in SessionIds \ DOMAIN web_followup_sessions :
                  /\ web_followup_sessions' =
                        Put(web_followup_sessions, session_id,
                            [symptom |-> symptom,
                             symptom_label |-> symptom_data.label,
                             current_index |-> 0,
                             question_keys |-> symptom_data.followup_questions,
                             all_questions |-> symptom_data.followup_questions,
                             responses |-> <<>>])
                  /\ resp' = Call("web_start_followup", session_id, NoQuestion, "ok",
                                  symptom_data.followup_questions[1])
        /\ UNCHANGED <<web_sessions, web_current_context, web_current_session_id,
                       web_conversation_history, web_submitted, routesVars,
                       memVars, dbVars>>

\* /web/followup/answer of app_web/main.py (app/web/web_routes.py has the same
\* statements): the answer is recorded and the index advanced before any test
web_answer_followup ==
    \E session_id \in SessionIds, answer \in FollowupAnswers :
        /\ IF session_id \notin DOMAIN web_followup_sessions
           THEN /\ resp' = Call("web_answer_followup", session_id, NoQuestion, "error",
                                NoQuestion)
                /\ UNCHANGED web_followup_sessions
           ELSE LET session == web_followup_sessions[session_id]
                    current_index == session.current_index + 1
                    question_keys == session.question_keys
                IN /\ Len(session.responses) < MaxResponses
                   /\ web_followup_sessions' =
                         [web_followup_sessions EXCEPT ![session_id] =
                             [session EXCEPT
                                 !.responses = Append(@, answer),
                                 !.current_index = current_index]]
                   /\ resp' = Call("web_answer_followup", session_id, NoQuestion, "ok",
                                   IF current_index >= Len(question_keys)
                                   THEN CompleteMarker
                                   ELSE question_keys[current_index + 1])
        /\ UNCHANGED <<web_sessions, web_current_context, web_current_session_id,
                       web_conversation_history, web_submitted, routesVars,
                       memVars, dbVars>>

NextFollowup ==
    \/ start_followup
    \/ answer_followup
    \/ web_start_followup
    \/ web_answer_followup

SpecFollowup == Init /\ [][NextFollowup]_vars

\* ------------------------------------- app_web/main.py: the legacy handlers

TxtMaleId == <<"m","a","l","e">>

\* AnswerValue.value a client sends to /web/chat for each question id; None stands
\* for a request without answer_value
ChatValuesFor(qid) ==
    CASE qid = "q_gender" -> {Str(FEMALE), Str(TxtFemaleLabel), Str(TxtMaleId), None}
      [] OTHER -> {Str(TxtYes)}

\* question ids a client sends to /web/chat; NoQuestion: no question_id
ChatQuestionIds ==
    {NoQuestion, "q_gender", "q_current_ailment", "q_pregnant", "q_unknown"}

\* phases a client sends to /web/chat
ChatPhases == {"predefined", "end"}

\* user_message values a client sends to /web/chat in the llm phase
UserMessages == {"", "it hurts"}

\* most messages a conversation is followed for
MaxMessages == 4

\* numbers of follow-up questions the guidance bundle holds
FollowUpCounts == {0, 1}

\* kinds of reply the language model gives
LlmTypes == {"question", "analysis"}

\* build_medical_schema: the schema is built from the answers it is given
build_medical_schema(answers) == [built_from |-> answers]

\* app_web cleanup_session: the stores of this model it deletes the id from
web_cleanup_session(store, session_id) ==
    [k \in DOMAIN store \ {session_id} |-> store[k]]

\* web_legacy_chat, phase "llm"; follow_ups and complaint stand for the guidance
\* bundle and the schema's current_complaint, llm_type for the model's reply
LegacyLlmChat(session_id, user_msg, follow_ups, complaint, llm_type) ==
    LET reply(status) == [Call("web_legacy_chat", session_id, NoQuestion, status,
                               NoQuestion) EXCEPT !.phase = "llm"]
    IN IF ~Truthy(web_current_context)
       THEN /\ resp' = reply("end")
            /\ UNCHANGED <<web_sessions, web_conversation_history>>
       ELSE IF session_id \notin DOMAIN web_conversation_history
       THEN /\ web_conversation_history' =
                  Put(web_conversation_history, session_id,
                      [schema |-> build_medical_schema(web_current_context["answers"]),
                       guidance |-> follow_ups,
                       messages |-> <<"assistant">>,
                       question_count |-> IF follow_ups > 0 /\ complaint
                                          THEN 1 ELSE 0])
            /\ resp' = reply("llm")
            /\ UNCHANGED web_sessions
       ELSE IF user_msg # ""
       THEN LET session_data == web_conversation_history[session_id]
                current_q_idx == session_data.question_count
                asked == [session_data EXCEPT
                             !.messages = @ \o <<"user", "assistant">>,
                             !.question_count = current_q_idx + 1]
            IN IF current_q_idx < session_data.guidance \/ llm_type = "question"
               THEN /\ Len(session_data.messages) + 2 <= MaxMessages
                    /\ web_conversation_history' =
                          [web_conversation_history EXCEPT ![session_id] = asked]
                    /\ resp' = reply("llm")
                    /\ UNCHANGED web_sessions
               ELSE /\ web_conversation_history' =
                          web_cleanup_session(web_conversation_history, session_id)
                    /\ web_sessions' = web_cleanup_session(web_sessions, session_id)
                    /\ resp' = reply("end")
       ELSE /\ resp' = reply("end")
            /\ UNCHANGED <<web_sessions, web_conversation_history>>

\* web_legacy_chat: the question list of this request
LegacyAllQuestions(answers) ==
    IF "q_gender" \in DOMAIN answers /\ answers["q_gender"] = Str(FEMALE)
    THEN BaseQuestions \o ConditionalFemale
    ELSE BaseQuestions

\* web_legacy_chat: the index of question_id in all_questions (0-based), -1 if absent
IndexOf(all_questions, question_id) ==
    IF \E i \in 1..Len(all_questions) : all_questions[i] = question_id
    THEN (CHOOSE i \in 1..Len(all_questions) :
            /\ all_questions[i] = question_id
            /\ \A k \in 1..(i - 1) : all_questions[k] # question_id) - 1
    ELSE NoIndex

\* POST /web/chat
WebLegacyChat(phases, session_ids) ==
    \E phase \in phases, question_id \in ChatQuestionIds, session_id \in session_ids :
       \E value \in ChatValuesFor(question_id) :
        IF phase = "predefined"
        THEN LET created == IF session_id \notin DOMAIN web_sessions
                            THEN Put(web_sessions, session_id, [answers |-> EmptyDict])
                            ELSE web_sessions
                 stored == IF question_id # NoQuestion
                           THEN [created EXCEPT ![session_id]["answers"] =
                                    Put(@, question_id, value)]
                           ELSE created
                 answers == stored[session_id]["answers"]
                 all_questions == LegacyAllQuestions(answers)
                 current_index == IndexOf(all_questions, question_id)
                 next_index == current_index + 1
             IN /\ web_sessions' = stored
                /\ resp' = [Call("web_legacy_chat", session_id, question_id,
                                 IF next_index >= Len(all_questions)
                                 THEN "request_context" ELSE "predefined",
                                 IF next_index >= Len(all_questions)
                                 THEN NoQuestion ELSE all_questions[next_index + 1])
                            EXCEPT !.phase = phase,
                                   !.all_questions = all_questions,
                                   !.next_index = next_index]
                /\ UNCHANGED <<web_current_context, web_current_session_id,
                               web_conversation_history, web_submitted,
                               routesVars, webFollowupVars, memVars, dbVars>>
        ELSE IF phase = "llm"
        THEN /\ question_id = NoQuestion
             /\ \E user_msg \in UserMessages, follow_ups \in FollowUpCounts,
                   complaint \in BOOLEAN, llm_type \in LlmTypes :
                    LegacyLlmChat(session_id, user_msg, follow_ups, complaint, llm_type)
             /\ UNCHANGED <<web_current_context, web_current_session_id,
                            web_submitted, routesVars, webFollowupVars, memVars,
                            dbVars>>
        ELSE /\ resp' = [Call("web_legacy_chat", session_id, question_id, "end",
                              NoQuestion) EXCEPT !.phase = phase]
             /\ UNCHANGED <<webVars, memVars, dbVars>>

\* POST /web/session/context
WebReceiveContext(session_ids, contexts) ==
    \E session_id \in session_ids, user_choice \in UserChoices,
       questionnaire_context \in contexts :
        /\ IF questionnaire_context # EmptyDict
           THEN /\ web_submitted' = Put(web_submitted, session_id, questionnaire_context)
                /\ web_current_context' = [session_id |-> session_id,
                                           user_choice |-> user_choice,
                                           answers |-> questionnaire_context]
                /\ web_current_session_id' = session_id
                /\ resp' = Call("web_receive_context", session_id, NoQuestion, "llm",
                                NoQuestion)
                /\ UNCHANGED web_sessions
           ELSE /\ web_current_session_id' = session_id
                /\ web_sessions' = Put(web_sessions, session_id,
                                       [answers |-> EmptyDict,
                                        user_choice |-> user_choice])
                /\ resp' = Call("web_receive_context", session_id, NoQuestion,
                                "predefined", BaseQuestions[1])
                /\ UNCHANGED <<web_current_context, web_submitted>>
        /\ UNCHANGED <<web_conversation_history, routesVars, webFollowupVars, memVars,
                       dbVars>>

web_legacy_chat == WebLegacyChat(ChatPhases, SessionIds)

web_receive_context == WebReceiveContext(SessionIds, ContextInputs)

NextWeb ==
    \/ web_legacy_chat
    \/ web_receive_context

SpecWeb == Init /\ [][NextWeb]_vars

\* ------------------------------- app/main.py: the legacy chat route POST /chat

\* the fields of the bodies a client posts to /chat: the legacy body, the body of
\* /assessment/answer, and one with the fields of both
ChatBodies ==
    { {"session_id", "phase", "question_id", "answer"},
      AnswerRequestFields,
      AnswerRequestFields \cup {"phase", "answer"} }

\* POST /chat of app/main.py, the predefined phase
ChatPredefined(session_id, question_id, value) ==
    LET created == IF session_id \notin DOMAIN sessions
                   THEN Put(sessions, session_id, [answers |-> EmptyDict])
                   ELSE sessions
        stored == [created EXCEPT ![session_id]["answers"] = Put(@, question_id, value)]
        all_questions == LegacyAllQuestions(stored[session_id]["answers"])
        next_index == IndexOf(all_questions, question_id) + 1
    IN /\ sessions' = stored
       /\ resp' = [Call("chat_submit_answer", session_id, question_id,
                        IF next_index >= Len(all_questions)
                        THEN "request_context" ELSE "predefined",
                        IF next_index >= Len(all_questions)
                        THEN NoQuestion ELSE all_questions[next_index + 1])
                   EXCEPT !.phase = "predefined",
                          !.all_questions = all_questions,
                          !.next_index = next_index]

\* POST /chat of app/main.py (the second `submit_answer`): the body is validated
\* against the class AnswerRequest is bound to, then the handler reads req.phase
chat_submit_answer ==
    \E body \in ChatBodies, phase \in ChatPhases, question_id \in ChatQuestionIds,
       session_id \in SessionIds :
       \E value \in ChatValuesFor(question_id) :
        LET failed(status) ==
                /\ resp' = [Call("chat_submit_answer", session_id, question_id, status,
                                 NoQuestion) EXCEPT !.phase = phase]
                /\ UNCHANGED sessions
        IN
        /\ IF ~(AnswerRequestFields \subseteq body) \/ question_id = NoQuestion
           THEN \* 422: a required field is missing
                failed("invalid")
           ELSE IF "phase" \notin AnswerRequestFields
           THEN \* AttributeError: req.phase
                failed("exception")
           ELSE IF phase = "predefined"
           THEN ChatPredefined(session_id, question_id, value)
           ELSE failed("end")
        /\ UNCHANGED <<current_context, current_session_id, issued, started_by, ended,
                       concVars, auxVars, webVars, dbVars>>

NextLegacy ==
    \/ chat_submit_answer
    \/ web_legacy_chat
    \/ web_receive_context

SpecLegacy == Init /\ [][NextLegacy]_vars

\* ----------------------- app_web/main.py: the llm phase with two session ids

\* questionnaire contexts the two clients post to /web/session/context
WebContextInputs == ContextInputs \cup {[q_current_ailment |-> Str(TxtFine)]}

web_legacy_chat_llm == WebLegacyChat({"llm"}, PairSessionIds)

web_receive_context_pair == WebReceiveContext(PairSessionIds, WebContextInputs)

NextWebLlm ==
    \/ web_legacy_chat_llm
    \/ web_receive_context_pair

SpecWebLlm == Init /\ [][NextWebLlm]_vars

\* ------- app_web/main.py and app/web/web_routes.py: /web/assessment/*

\* AnswerResponse.status of S2 when the handler does not set it (Optional, None)
NoStatus == "<null>"

\* answer payloads the clients of /web/assessment/answer send: those of
\* /assessment/answer and a number answer that carries no value
WebQuestionIds == {"q_gender", "q_current_ailment"}

WebRequests ==
    RequestsFor(WebQuestionIds) \cup {<<"q_gender", [type |-> "number"]>>}

\* the session dict web_start_assessment stores (the same literal in both files)
WebFreshSession ==
    [answers |-> EmptyDict,
     current_index |-> 0,
     total_questions |-> Len(BaseQuestions),
     phase |-> "questionnaire",
     followup_questions |-> None,
     followup_index |-> 0,
     detected_symptom |-> None]

\* the record of a /web/assessment/answer call
WebCall(op, session_id, request, status, question) ==
    [op |-> op, session_id |-> session_id, question_id |-> request[1],
     answer_json |-> request[2], status |-> status, question |-> question]

\* AnswerResponse(session_id=..., question=question): S2's model leaves status None
\* where S1's defaults to "next"
WebAnswerResponse(status) == IF status = "next" THEN NoStatus ELSE status

\* app_web/main.py web_submit_answer on an existing session dict
WebAnswerStep(s, question_id, answer_json) ==
    LET answer_value == ExtractAnswerValue(answer_json)
        stored == [s EXCEPT !["answers"] = Put(@, question_id, answer_value)]
        phase == Get(stored, "phase", "questionnaire")
        answers == stored["answers"]
        gender == Get(answers, "q_gender", None)
        all_questions == IF Truthy(gender) /\ Lower(gender.str) = FEMALE
                         THEN BaseQuestions \o ConditionalFemale
                         ELSE BaseQuestions
    IN IF phase = "questionnaire"
       THEN IF "current_index" \notin DOMAIN stored
            THEN Result(stored, "exception", NoQuestion, all_questions, NoIndex)
            ELSE QuestionnaireResolve(stored, all_questions, stored["current_index"])
       ELSE FollowupStep(stored)

\* app/web/web_routes.py web_submit_answer on an existing session dict:
\* answers.get("q_gender", "").lower() is called on whatever the answer is
RoutesAnswerStep(s, question_id, answer_json) ==
    LET answer_value == ExtractAnswerValue(answer_json)
        stored == [s EXCEPT !["answers"] = Put(@, question_id, answer_value)]
        phase == Get(stored, "phase", "questionnaire")
        answers == stored["answers"]
        gender == Get(answers, "q_gender", Str(<<>>))
    IN IF phase = "questionnaire"
       THEN IF gender = None
            THEN \* AttributeError: 'NoneType' object has no attribute 'lower'
                 Result(stored, "exception", NoQuestion, <<>>, NoIndex)
            ELSE QuestionnaireResolve(stored,
                     IF Lower(gender.str) = FEMALE
                     THEN BaseQuestions \o ConditionalFemale
                     ELSE BaseQuestions,
                     stored["current_index"])
       ELSE FollowupStep(stored)

\* GET /web/assessment/start of app_web/main.py
web_start_assessment ==
    \E session_id \in SessionIds \ DOMAIN web_sessions :
        /\ web_sessions' = Put(web_sessions, session_id, WebFreshSession)
        /\ resp' = WebCall("web_start_assessment", session_id,
                           <<NoQuestion, EmptyDict>>, NoStatus, BaseQuestions[1])
        /\ UNCHANGED <<web_current_context, web_current_session_id,
                       web_conversation_history, web_submitted, routesVars,
                       webFollowupVars, memVars, dbVars>>

\* POST /web/assessment/answer of app_web/main.py
web_submit_answer ==
    \E session_id \in SessionIds, request \in WebRequests :
        /\ IF session_id \notin DOMAIN web_sessions
           THEN /\ resp' = WebCall("web_submit_answer", session_id, request, "error",
                                   NoQuestion)
                /\ UNCHANGED web_sessions
           ELSE LET r == WebAnswerStep(web_sessions[session_id], request[1], request[2])
                IN /\ web_sessions' = [web_sessions EXCEPT ![session_id] = r.session]
                   /\ resp' = WebCall("web_submit_answer", session_id, request,
                                      WebAnswerResponse(r.status), r.question)
        /\ UNCHANGED <<web_current_context, web_current_session_id,
                       web_conversation_history, web_submitted, routesVars,
                       webFollowupVars, memVars, dbVars>>

\* GET /web/assessment/start of app/web/web_routes.py
routes_start_assessment ==
    \E session_id \in SessionIds \ DOMAIN routes_sessions :
        /\ routes_sessions' = Put(routes_sessions, session_id, WebFreshSession)
        /\ resp' = WebCall("routes_start_assessment", session_id,
                           <<NoQuestion, EmptyDict>>, NoStatus, BaseQuestions[1])
        /\ UNCHANGED <<web_sessions, web_current_context, web_current_session_id,
                       web_conversation_history, web_submitted, webFollowupVars,
                       memVars, dbVars>>

\* POST /web/assessment/answer of app/web/web_routes.py
routes_submit_answer ==
    \E session_id \in SessionIds, request \in WebRequests :
        /\ IF session_id \notin DOMAIN routes_sessions
           THEN /\ resp' = WebCall("routes_submit_answer", session_id, request,
                                   "error", NoQuestion)
                /\ UNCHANGED routes_sessions
           ELSE LET r == RoutesAnswerStep(routes_sessions[session_id], request[1],
                                         request[2])
                IN /\ routes_sessions' =
                        [routes_sessions EXCEPT ![session_id] = r.session]
                   /\ resp' = WebCall("routes_submit_answer", session_id, request,
                                      WebAnswerResponse(r.status), r.question)
        /\ UNCHANGED <<web_sessions, web_current_context, web_current_session_id,
                       web_conversation_history, web_submitted, webFollowupVars,
                       memVars, dbVars>>

NextReplica ==
    \/ web_start_assessment
    \/ web_submit_answer
    \/ routes_start_assessment
    \/ routes_submit_answer

SpecReplica == Init /\ [][NextReplica]_vars

\* ------------------------------- app/auth/assessment_db.py: the session table

\* WHERE user_id = %s AND status = 'active'
ActiveRows(rows, user_id) ==
    {id \in DOMAIN rows : rows[id].user_id = user_id /\ rows[id].status = "active"}

\* the row is updated by a transaction of another connection that has not ended
LockedByOther(p, id) ==
    \E q \in DbProcs \ {p} : id \in tx[q].expired

\* some connection has the row locked
Locked(id) ==
    \E q \in DbProcs : id \in tx[q].expired

\* A table without the partial unique index: no insert conflicts.
UniqueIndexConflict_Disabled(rows, own_expired, user_id) ==
    FALSE

\* idx_assessment_sessions_user_active: a live row with status active of the same
\* user is in the index (a row the inserting transaction has expired is not)
UniqueIndexConflict(rows, own_expired, user_id) ==
    ActiveRows(rows, user_id) \ own_expired # {}

DbCall(op, id, status) ==
    Call(op, IF id = 0 THEN "" ELSE ToString(id), NoQuestion, status, NoQuestion)

\* create_session: the UPDATE statement starts and takes its snapshot
create_session_begin ==
    \E p \in DbProcs, user_id \in Users :
        /\ tx[p].pc = "idle"
        /\ db_next <= MaxRows
        /\ tx' = [tx EXCEPT ![p] = [IdleTx EXCEPT !.pc = "updating",
                                                  !.user_id = user_id,
                                                  !.snapshot = ActiveRows(db, user_id)]]
        /\ UNCHANGED <<db, db_next, resp, memVars, webVars, chatVars>>

\* create_session: the UPDATE statement locks and expires the rows of its
\* snapshot that still match; it waits while another transaction holds one
create_session_expire ==
    \E p \in DbProcs :
        /\ tx[p].pc = "updating"
        /\ \A id \in tx[p].snapshot : ~LockedByOther(p, id)
        /\ tx' = [tx EXCEPT ![p].pc = "updated",
                            ![p].expired = tx[p].snapshot
                                           \cap ActiveRows(db, tx[p].user_id)]
        /\ UNCHANGED <<db, db_next, resp, memVars, webVars, chatVars>>

\* create_session: the INSERT statement; a unique violation rolls back and raises
create_session_insert ==
    \E p \in DbProcs :
        LET user_id == tx[p].user_id
        IN /\ tx[p].pc = "updated"
           /\ \A id \in ActiveRows(db, user_id) \ tx[p].expired : ~LockedByOther(p, id)
           /\ \A q \in DbProcs \ {p} : ~(tx[q].pc = "inserted" /\ tx[q].user_id = user_id)
           /\ IF UniqueIndexConflict(db, tx[p].expired, user_id)
              THEN /\ tx' = [tx EXCEPT ![p] = IdleTx]
                   /\ resp' = DbCall("create_session", 0, "exception")
                   /\ UNCHANGED db_next
              ELSE /\ tx' = [tx EXCEPT ![p].pc = "inserted", ![p].inserted = db_next]
                   /\ db_next' = db_next + 1
                   /\ UNCHANGED resp
           /\ UNCHANGED <<db, memVars, webVars, chatVars>>

\* create_session: conn.commit()
create_session_commit ==
    \E p \in DbProcs :
        /\ tx[p].pc = "inserted"
        /\ db' = Put([id \in DOMAIN db |->
                        IF id \in tx[p].expired
                        THEN [db[id] EXCEPT !.status = "expired"]
                        ELSE db[id]],
                     tx[p].inserted,
                     [user_id |-> tx[p].user_id, status |-> "active",
                      phase |-> "questionnaire", detected_symptom |-> None])
        /\ tx' = [tx EXCEPT ![p] = IdleTx]
        /\ resp' = [DbCall("create_session", tx[p].inserted, "created")
                    EXCEPT !.phase = "questionnaire"]
        /\ UNCHANGED <<db_next, memVars, webVars, chatVars>>

\* session ids a caller passes: the rows of the table and one id of no row
DbSessionIds == (DOMAIN db) \cup {db_next}

\* (phase, detected_symptom) arguments a caller passes; detected_symptom
\* defaults to None
PhaseArgs ==
    { <<"questionnaire", None>>, <<"followup", None>>,
      <<"followup", Str(<<"h","e","a","d","a","c","h","e">>)>> }

\* update_session_phase(session_id, phase, detected_symptom)
UpdateSessionPhase(phase_args) ==
    \E session_id \in DbSessionIds, args \in phase_args :
      LET phase == args[1]
          detected_symptom == args[2]
      IN
        /\ ~Locked(session_id)
        /\ db' = [id \in DOMAIN db |->
                    IF id = session_id
                    THEN [db[id] EXCEPT !.phase = phase,
                                        !.detected_symptom =
                                            IF detected_symptom # None
                                            THEN detected_symptom ELSE @]
                    ELSE db[id]]
        /\ UNCHANGED <<tx, db_next, resp, memVars, webVars, chatVars>>

update_session_phase == UpdateSessionPhase(PhaseArgs)

\* complete_session(session_id)
complete_session ==
    \E session_id \in DbSessionIds :
        /\ ~Locked(session_id)
        /\ db' = [id \in DOMAIN db |->
                    IF id = session_id THEN [db[id] EXCEPT !.status = "completed"]
                    ELSE db[id]]
        /\ UNCHANGED <<tx, db_next, resp, memVars, webVars, chatVars>>

\* expire_session(session_id)
expire_session ==
    \E session_id \in DbSessionIds :
        /\ ~Locked(session_id)
        /\ db' = [id \in DOMAIN db |->
                    IF id = session_id THEN [db[id] EXCEPT !.status = "expired"]
                    ELSE db[id]]
        /\ UNCHANGED <<tx, db_next, resp, memVars, webVars, chatVars>>

NextDb ==
    \/ create_session_begin
    \/ create_session_expire
    \/ create_session_insert
    \/ create_session_commit
    \/ update_session_phase
    \/ complete_session
    \/ expire_session

SpecDb == Init /\ [][NextDb]_vars

\* ------------- assessment_db.py: update_session_phase with two symptom keys

\* (phase, detected_symptom) arguments that name a symptom of the catalog
SymptomArgs ==
    { <<"followup", Str(<<"h","e","a","d","a","c","h","e">>)>>,
      <<"followup", Str(<<"c","h","e","s","t","_","p","a","i","n">>)>> }

update_session_phase_symptom == UpdateSessionPhase(SymptomArgs)

NextDbPhase ==
    \/ create_session_begin
    \/ create_session_expire
    \/ create_session_insert
    \/ create_session_commit
    \/ update_session_phase_symptom

SpecDbPhase == Init /\ [][NextDbPhase]_vars

\* ------------------------------ app/chatbot: chat sessions and messages

\* session ids uuid4() returns, and one more that clients send
ChatSessionIds == {"c1", "c2"}

\* the subject of the request's token; "": no Authorization header
ChatCallers == Users \cup {""}

\* message texts of a SendMessageRequest
ChatTexts == {"", " ", "hi"}

FALLBACK_MESSAGE == "I'm sorry, something went wrong. Please try again."

\* replies of chatbot_client.generate_response; FALLBACK_MESSAGE where it raised
ChatReplies == {"reply", FALLBACK_MESSAGE}

\* most rows chat_messages holds for one session
MaxHistory == 3

\* the latest value of the database clock
MaxClock == 3

\* the response of a chat route: the HTTP status code
ChatCall(op, session_id, caller, code) ==
    [op |-> op, session_id |-> session_id, caller |-> caller, code |-> code]

\* save_message
save_message(messages, session_id, role, content) ==
    Put(messages, session_id,
        Get(messages, session_id, <<>>) \o <<[role |-> role, content |-> content]>>)

\* the rows chat_messages holds for the session
HistoryOf(messages, session_id) == Get(messages, session_id, <<>>)

\* /chat/start, gen_random_uuid() drawing from session_ids
StartChat(session_ids) ==
    \E user_id \in ChatCallers, welcome \in ChatReplies :
        IF user_id = ""
        THEN /\ resp' = ChatCall("start_chat", "", user_id, 401)
             /\ UNCHANGED <<chatVars, db, tx, db_next, memVars, webVars>>
        ELSE \E session_id \in session_ids \ DOMAIN chat_sessions :
               /\ chat_sessions' = Put(chat_sessions, session_id,
                                       [user_id |-> user_id, status |-> "active",
                                        ended_at |-> None])
               /\ chat_messages' = save_message(chat_messages, session_id,
                                                "assistant", welcome)
               /\ resp' = ChatCall("start_chat", session_id, user_id, 200)
               /\ UNCHANGED <<chat_now, chat_inflight, db, tx, db_next, memVars, webVars>>

start_chat == StartChat(ChatSessionIds)

\* send_message accepting a request for any session that exists
SendMessageCode_ExistsOnly(user_id, text, session_id) ==
    IF user_id = "" THEN 401
    ELSE IF session_id \notin DOMAIN chat_sessions THEN 404
    ELSE 200

\* send_message: the status code its checks give, 200 where all pass
SendMessageCode(user_id, text, session_id) ==
    IF user_id = "" THEN 401
    ELSE IF text = "" \/ text = " " THEN 400
    ELSE IF session_id \notin DOMAIN chat_sessions THEN 404
    ELSE IF chat_sessions[session_id].user_id # user_id THEN 403
    ELSE IF chat_sessions[session_id].status # "active" THEN 400
    ELSE 200

\* /chat/message
send_message ==
    \E user_id \in ChatCallers, session_id \in ChatSessionIds, text \in ChatTexts,
       reply \in ChatReplies :
      LET code == SendMessageCode(user_id, text, session_id) IN
        /\ code = 200 => Len(Get(chat_messages, session_id, <<>>)) + 2 <= MaxHistory
        /\ chat_messages' =
              IF code = 200
              THEN save_message(save_message(chat_messages, session_id, "user", text),
                                session_id, "assistant", reply)
              ELSE chat_messages
        /\ resp' = ChatCall("send_message", session_id, user_id, code)
        /\ UNCHANGED <<chat_sessions, chat_now, chat_inflight, db, tx, db_next,
                       memVars, webVars>>

\* end_chat_session: UPDATE ... WHERE session_id = %s AND status = 'active'
end_chat_session(rows, session_id) ==
    [id \in DOMAIN rows |->
        IF id = session_id /\ rows[id].status = "active"
        THEN [rows[id] EXCEPT !.status = "ended", !.ended_at = chat_now]
        ELSE rows[id]]

\* /chat/end for the sessions of session_ids; the clock has moved on when the next
\* request arrives
EndChat(session_ids) ==
    \E user_id \in ChatCallers, session_id \in session_ids :
      LET code == IF user_id = "" THEN 401
                  ELSE IF session_id \notin DOMAIN chat_sessions THEN 404
                  ELSE IF chat_sessions[session_id].user_id # user_id THEN 403
                  ELSE 200
      IN
        /\ chat_now < MaxClock
        /\ chat_now' = chat_now + 1
        /\ chat_sessions' = IF code = 200 THEN end_chat_session(chat_sessions, session_id)
                            ELSE chat_sessions
        /\ resp' = ChatCall("end_chat", session_id, user_id, code)
        /\ UNCHANGED <<chat_messages, chat_inflight, db, tx, db_next, memVars, webVars>>

end_chat == EndChat(ChatSessionIds)

NextChat ==
    \/ start_chat
    \/ send_message
    \/ end_chat

SpecChat == Init /\ [][NextChat]_vars

\* ------------- chatbot_routes.py: /chat/message, one database call at a time

\* send_message opens a connection and commits for each of get_chat_session,
\* save_message, get_messages and save_message; between two of them the requests
\* of other server processes reach the database.

\* most rows chat_messages holds for one session when requests overlap
MaxRaceHistory == 5

\* message texts of the overlapping requests
RaceTexts == {"", "hi"}

\* the chat session the overlapping requests are for
RaceSessionIds == {"c1"}

start_chat_race == StartChat(RaceSessionIds)

end_chat_race == EndChat(RaceSessionIds)

\* requests in flight for session_id
InFlightOn(session_id) ==
    {w \in ChatWorkers : /\ chat_inflight[w].pc # "idle"
                         /\ chat_inflight[w].session_id = session_id}

\* send_message: _require_user_id, the test of the text and get_chat_session with
\* the tests of its row
send_message_check ==
    \E w \in ChatWorkers, user_id \in ChatCallers, session_id \in RaceSessionIds,
       text \in RaceTexts :
      LET code == SendMessageCode(user_id, text, session_id) IN
        /\ chat_inflight[w].pc = "idle"
        /\ IF code = 200
           THEN /\ Len(HistoryOf(chat_messages, session_id))
                      + 2 * Cardinality(InFlightOn(session_id)) + 2 <= MaxRaceHistory
                /\ chat_inflight' = [chat_inflight EXCEPT ![w] =
                       [pc |-> "save_user", session_id |-> session_id,
                        user_id |-> user_id, text |-> text, saved_at |-> 0,
                        history |-> <<>>]]
                /\ UNCHANGED resp
           ELSE /\ resp' = ChatCall("send_message", session_id, user_id, code)
                /\ UNCHANGED chat_inflight
        /\ UNCHANGED <<chat_sessions, chat_messages, chat_now, db, tx, db_next,
                       memVars, webVars>>

\* send_message: "Persist the incoming user message"
send_message_save_user ==
    \E w \in ChatWorkers :
      LET r == chat_inflight[w] IN
        /\ r.pc = "save_user"
        /\ chat_messages' = save_message(chat_messages, r.session_id, "user", r.text)
        /\ chat_inflight' = [chat_inflight EXCEPT ![w] =
               [r EXCEPT !.pc = "load",
                         !.saved_at = Len(HistoryOf(chat_messages, r.session_id)) + 1]]
        /\ UNCHANGED <<chat_sessions, chat_now, resp, db, tx, db_next, memVars, webVars>>

\* send_message: "Load full conversation history from DB"
send_message_load ==
    \E w \in ChatWorkers :
      LET r == chat_inflight[w] IN
        /\ r.pc = "load"
        /\ chat_inflight' = [chat_inflight EXCEPT ![w] =
               [r EXCEPT !.pc = "reply",
                         !.history = HistoryOf(chat_messages, r.session_id)]]
        /\ UNCHANGED <<chat_sessions, chat_messages, chat_now, resp, db, tx, db_next,
                       memVars, webVars>>

\* send_message: generate_response, "Persist assistant reply" and the response
send_message_reply ==
    \E w \in ChatWorkers, reply \in ChatReplies :
      LET r == chat_inflight[w] IN
        /\ r.pc = "reply"
        /\ chat_messages' = save_message(chat_messages, r.session_id, "assistant", reply)
        /\ chat_inflight' = [chat_inflight EXCEPT ![w] = IdleRequest]
        /\ resp' = ChatCall("send_message", r.session_id, r.user_id, 200)
        /\ UNCHANGED <<chat_sessions, chat_now, db, tx, db_next, memVars, webVars>>

NextChatRace ==
    \/ start_chat_race
    \/ send_message_check
    \/ send_message_save_user
    \/ send_message_load
    \/ send_message_reply
    \/ end_chat_race

SpecChatRace == Init /\ [][NextChatRace]_vars

\* ------------------------------ detect_symptom on small symptom lists

SymChestPain ==
    [symptom_id |-> "chest_pain", label |-> "Chest Pain",
     keywords |-> << <<"c","h","e","s","t"," ","p","a","i","n">> >>,
     default_urgency |-> "red_emergency"]

SymPain ==
    [symptom_id |-> "pain", label |-> "Pain",
     keywords |-> << <<"P","a","i","n">>, <<"a","c","h","e">> >>,
     default_urgency |-> "yellow_doctor_visit"]

SymHeadache ==
    [symptom_id |-> "headache", label |-> "Headache",
     keywords |-> << <<"h","e","a","d","a","c","h","e">>, <<"h","e","a","d">> >>,
     default_urgency |-> "yellow_doctor_visit"]

TestSymptoms == {SymChestPain, SymPain, SymHeadache}

\* symptom lists of up to two symptoms, in either order
TestCatalogs ==
    {<<>>} \cup { <<a>> : a \in TestSymptoms }
           \cup { <<a, b>> : a \in TestSymptoms, b \in TestSymptoms }

TxtIHaveChestPain ==
    <<"I"," ","h","a","v","e"," ","C","h","e","s","t"," ","P","a","i","n"," ">>

TxtHeadacheUpper == <<" ","H","E","A","D","A","C","H","E">>

TxtMyHeadHurts == <<"m","y"," ","h","e","a","d"," ","h","u","r","t","s">>

TxtHeadacheAndChestPain ==
    <<"h","e","a","d","a","c","h","e",","," ","c","h","e","s","t"," ","p","a","i","n">>

\* chief complaints passed to detect_symptom
TestComplaints ==
    { None, Str(<<>>), Str(<<" ">>), Str(TxtFine), Str(TxtHeadache),
      Str(TxtIHaveChestPain), Str(TxtHeadacheUpper), Str(TxtMyHeadHurts),
      Str(TxtHeadacheAndChestPain) }

\* a symptom list and a complaint are given
InitDetect ==
    /\ InitStores
    /\ \E symptoms \in TestCatalogs, complaint_text \in TestComplaints :
          resp = [op |-> "detect_symptom_args", symptoms |-> symptoms,
                  complaint_text |-> complaint_text]

\* detect_symptom is applied to them
detect_symptom_call ==
    /\ resp.op = "detect_symptom_args"
    /\ resp' = [op |-> "detect_symptom", symptoms |-> resp.symptoms,
                complaint_text |-> resp.complaint_text,
                result |-> DetectSymptomIn(resp.symptoms, resp.complaint_text)]
    /\ UNCHANGED <<memVars, webVars, dbVars>>

NextDetect == detect_symptom_call

SpecDetect == InitDetect /\ [][NextDetect]_vars

\* ------------------------------------ the answer extraction on payloads

\* a key the payload does not have, and a key it has with value v
Absent == [given |-> FALSE]

Given(v) == [given |-> TRUE, v |-> v]

\* the dict with the keys whose value is given
PayloadOf(type, value, label, id, labels) ==
    LET given == [k \in {"type", "value", "selected_option_label",
                         "selected_option_id", "selected_option_labels"} |->
                    CASE k = "type" -> type
                      [] k = "value" -> value
                      [] k = "selected_option_label" -> label
                      [] k = "selected_option_id" -> id
                      [] OTHER -> labels]
    IN [k \in {x \in DOMAIN given : given[x].given} |-> given[k].v]

TxtA == <<"A">>

TxtB == <<"B"," ","c">>

\* the "type" of a payload; "date" is no type the handler knows
PayloadTypes ==
    {Absent} \cup { Given(type) : type \in {"text", "number", "single_choice",
                                             "multi_choice", "date"} }

\* the "value" of a payload; [num |-> 7] is the JSON number 7
PayloadValues == {Absent, Given(Str(<<>>)), Given(Str(TxtYes)), Given([num |-> 7])}

PayloadLabels == {Absent, Given(Str(<<>>)), Given(Str(TxtFemaleLabel))}

PayloadIds == {Absent, Given(Str(<<>>)), Given(Str(FEMALE))}

PayloadLabelLists == {Absent, Given(<<>>), Given(<<TxtA>>), Given(<<TxtB, TxtA>>)}

\* answer_json payloads a client posts
TestPayloads ==
    { PayloadOf(type, value, label, id, labels) :
        type \in PayloadTypes, value \in PayloadValues, label \in PayloadLabels,
        id \in PayloadIds, labels \in PayloadLabelLists }

\* a payload is given
InitExtract ==
    /\ InitStores
    /\ \E answer_data \in TestPayloads :
          resp = [op |-> "extract_args", answer_data |-> answer_data]

\* the extraction of submit_answer is applied to it
extract_answer_value ==
    /\ resp.op = "extract_args"
    /\ resp' = [op |-> "extract", answer_data |-> resp.answer_data,
                answer_value |-> ExtractAnswerValue(resp.answer_data)]
    /\ UNCHANGED <<memVars, webVars, dbVars>>

NextExtract == extract_answer_value

SpecExtract == InitExtract /\ [][NextExtract]_vars

\* ------------------------------------------------------- the properties

\* The phase a handler reads from a session dict.
Phase(s) == Get(s, "phase", "questionnaire")

\* The first id of `list` with no recorded answer; NoQuestion when all have one.
RECURSIVE FirstUnanswered(_, _)
FirstUnanswered(list, answers) ==
    IF list = <<>> THEN NoQuestion
    ELSE IF Head(list) \notin DOMAIN answers THEN Head(list)
    ELSE FirstUnanswered(Tail(list), answers)

\* The recorded q_gender answer equals "female", compared case-insensitively.
GenderIsFemale(answers) ==
    /\ "q_gender" \in DOMAIN answers
    /\ answers["q_gender"] # None
    /\ Lower(answers["q_gender"].str) = FEMALE

\* Base questions plus the triggered conditional questions, in catalog order.
TriggeredList(answers) ==
    IF GenderIsFemale(answers) THEN BaseQuestions \o ConditionalFemale
    ELSE BaseQuestions

\* Symptom i of the decision tree has a keyword that occurs in the complaint.
SymptomMatches(i, answers) ==
    /\ "q_current_ailment" \in DOMAIN answers
    /\ answers["q_current_ailment"] # None
    /\ \E j \in 1..Len(DecisionTree[i].keywords) :
          Contains(Lower(DecisionTree[i].keywords[j]),
                   Strip(Lower(answers["q_current_ailment"].str)))

\* The chief complaint matches some symptom keyword.
ComplaintMatches(answers) ==
    \E i \in 1..Len(DecisionTree) : SymptomMatches(i, answers)

\* The first symptom, in catalog order, that the complaint matches.
FirstMatch(answers) ==
    DecisionTree[CHOOSE i \in 1..Len(DecisionTree) :
                    /\ SymptomMatches(i, answers)
                    /\ \A k \in 1..(i - 1) : ~SymptomMatches(k, answers)]

\* The last call was an /assessment/answer that ran its resolution on a session
\* that read phase `phase`.
Resolved(phase) ==
    /\ resp.op = "submit_answer"
    /\ resp.session_id \in DOMAIN sessions
    /\ resp.phase = phase
    /\ resp.status \in {"next", "completed"}

\* The session the last call was about.
Sess == sessions[resp.session_id]

\* C1: in the questionnaire phase the question submit_answer returns is the first
\* question of (base + triggered conditional questions) with no recorded answer,
\* and the phase stays questionnaire, whatever was submitted before.
C1_NextIsFirstUnanswered ==
    (Resolved("questionnaire") /\ resp.status = "next" /\ Phase(Sess) = "questionnaire")
        => resp.question = FirstUnanswered(TriggeredList(Sess["answers"]),
                                           Sess["answers"])

\* C2: two resolutions in succession with no new answer recorded in between (the
\* identical answer resubmitted for the same question id) return the same outcome.
C2_ResolutionIdempotent ==
    [][ ( /\ resp.op = "submit_answer"
          /\ resp'.op = "submit_answer"
          /\ resp'.session_id = resp.session_id
          /\ resp'.question_id = resp.question_id
          /\ resp.session_id \in DOMAIN sessions
          /\ resp.session_id \in DOMAIN sessions'
          /\ sessions'[resp.session_id]["answers"] = sessions[resp.session_id]["answers"]
          /\ resp.status \in {"next", "completed"} )
        => ( /\ resp'.status = resp.status
             /\ resp'.question = resp.question ) ]_vars

\* Every question of the list the answers trigger has a recorded answer.
AllAnswered(answers) ==
    FirstUnanswered(TriggeredList(answers), answers) = NoQuestion

\* The last call ran the questionnaire branch and left the questionnaire list
\* exhausted: its index passed the end of the list, or it recorded the last
\* answer the list was missing.
Exhausted ==
    /\ Resolved("questionnaire")
    /\ \/ resp.next_index >= Len(resp.all_questions)
       \/ AllAnswered(Sess["answers"])

\* C3: the submit_answer call that exhausts the questionnaire list with a chief
\* complaint that matches a symptom keyword sets the phase to followup, records
\* that symptom and returns the symptom's first follow-up question, in that call.
C3_ExhaustedWithMatchEntersFollowup ==
    (Exhausted /\ ComplaintMatches(Sess["answers"]))
    => ( /\ Phase(Sess) = "followup"
         /\ Sess["detected_symptom"] # None
         /\ Sess["detected_symptom"].symptom_id = FirstMatch(Sess["answers"]).symptom_id
         /\ Sess["followup_index"] = 0
         /\ resp.status = "next"
         /\ resp.question = FirstMatch(Sess["answers"]).followup_questions[1] )

\* C3 witness: the female scenario, answered in order, has just entered followup.
C3_Witness ==
    /\ Resolved("questionnaire")
    /\ resp.question_id = "q_pregnant"
    /\ resp.next_index >= Len(resp.all_questions)
    /\ resp.all_questions = BaseQuestions \o ConditionalFemale
    /\ AllAnswered(Sess["answers"])
    /\ Phase(Sess) = "followup"
    /\ resp.question = "headache_q1"

\* C4: when the questionnaire list is exhausted and the chief complaint matches no
\* keyword (or is empty or absent), submit_answer returns completed, the phase
\* stays questionnaire and no symptom is recorded.
C4_ExhaustedNoMatchCompletes ==
    (Exhausted /\ ~ComplaintMatches(Sess["answers"]))
    => ( /\ resp.status = "completed"
         /\ resp.question = NoQuestion
         /\ Phase(Sess) = "questionnaire"
         /\ Sess["detected_symptom"] = None )

\* The follow-up keys of the symptom recorded in session dict s.
FollowupKeysOf(s) == SymptomData(s["detected_symptom"].symptom_id).followup_questions

\* C5: in the followup phase with a recorded symptom, submit_answer returns the
\* first follow-up key with no recorded answer, and completed exactly when every
\* follow-up key of the symptom has a recorded answer.
C5_FollowupFirstUnanswered ==
    ( /\ Resolved("followup")
      /\ Sess["detected_symptom"] # None )
    => LET first == FirstUnanswered(FollowupKeysOf(Sess), Sess["answers"]) IN
       /\ (resp.status = "completed") <=> (first = NoQuestion)
       /\ resp.status = "next" => resp.question = first

\* C7: the phase is followup, or completed was returned from the questionnaire
\* phase, only when every base and every triggered conditional question has a
\* recorded answer.
C7_FollowupOnlyAfterAllAnswered ==
    \A sid \in DOMAIN sessions :
        ( \/ Phase(sessions[sid]) = "followup"
          \/ (Resolved("questionnaire") /\ resp.session_id = sid
                /\ resp.status = "completed") )
        => FirstUnanswered(TriggeredList(sessions[sid]["answers"]),
                           sessions[sid]["answers"]) = NoQuestion

\* C6: at every resolution of the questionnaire the conditional set q_gender=female
\* is part of the question list if and only if the recorded q_gender answer equals
\* "female" compared case-insensitively (no answer recorded: not part of it).
C6_ConditionalIffFemale ==
    ( /\ resp.op \in {"submit_answer", "web_legacy_chat"}
      /\ resp.all_questions # <<>> )
    => LET store == IF resp.op = "submit_answer" THEN sessions ELSE web_sessions
           answers == store[resp.session_id]["answers"]
       IN IF GenderIsFemale(answers)
          THEN resp.all_questions = BaseQuestions \o ConditionalFemale
          ELSE resp.all_questions = BaseQuestions

\* C8: once the phase of a session is followup, no operation on that session id
\* makes its phase questionnaire again.
C8_PhaseMonotonic ==
    [][ \A sid \in DOMAIN sessions \cap DOMAIN sessions' :
            Phase(sessions[sid]) = "followup" => Phase(sessions'[sid]) = "followup" ]_vars

\* C9: a session whose status is completed or expired keeps that status; a status
\* changes only from active to completed or from active to expired.
C9_StatusMonotonic ==
    [][ \A id \in DOMAIN db :
            /\ id \in DOMAIN db'
            /\ db[id].status \in {"completed", "expired"}
                   => db'[id].status = db[id].status
            /\ db'[id].status # db[id].status
                   => db[id].status = "active" /\ db'[id].status \in {"completed", "expired"}
      ]_vars

\* C10: every user has at most one session with status active, also while
\* create_session calls for the same user run concurrently; when the new active
\* row of a create_session exists, every previously active session of that user
\* has been expired by that call.
C10_OneActivePerUser ==
    /\ \A user_id \in Users : Cardinality(ActiveRows(db, user_id)) <= 1
    /\ \A p \in DbProcs :
          tx[p].pc = "inserted" => ActiveRows(db, tx[p].user_id) \ tx[p].expired = {}

\* two create_session calls of one user overlapped: one committed its active row
\* after expiring the earlier one, the other ended on the unique index
C10_Witness ==
    /\ resp.op = "create_session"
    /\ resp.status = "exception"
    /\ \E user_id \in Users :
          /\ Cardinality(ActiveRows(db, user_id)) = 1
          /\ \E id \in DOMAIN db : db[id].user_id = user_id /\ db[id].status = "expired"

\* C11: a submit_answer for a question id with no recorded answer grows the
\* session's answered set by exactly one; for a question id that has an answer
\* the set keeps its size and the stored value becomes the new one; no other
\* answer changes.
C11_AnswerUpsert ==
    [][ ( /\ resp'.op = "submit_answer"
          /\ resp'.session_id \in DOMAIN sessions )
        => LET sid == resp'.session_id
               q == resp'.question_id
               before == sessions[sid]["answers"]
               after == sessions'[sid]["answers"]
           IN /\ q \notin DOMAIN before
                    => Cardinality(DOMAIN after) = Cardinality(DOMAIN before) + 1
              /\ q \in DOMAIN before => DOMAIN after = DOMAIN before
              /\ after[q] = resp'.answer_value
              /\ \A k \in DOMAIN before \ {q} : after[k] = before[k] ]_vars

\* C11 witness: the complaint that was detected as headache has been resubmitted
\* as "feeling fine": one answer recorded, with the new value.
C11_Witness ==
    /\ resp.op = "submit_answer"
    /\ resp.session_id \in DOMAIN sessions
    /\ resp.question_id = "q_current_ailment"
    /\ Phase(Sess) = "followup"
    /\ Sess["detected_symptom"] # None
    /\ DOMAIN Sess["answers"] = {"q_current_ailment"}
    /\ Sess["answers"]["q_current_ailment"] = Str(TxtFine)
    /\ resp.answer_value = Str(TxtFine)

\* C12: once an end request has removed a session, every later submit_answer on
\* that session id ends in an error and changes nothing in the session store (no
\* answer, phase, symptom or index).
C12_EndedSessionRejectsAnswers ==
    [][ ( /\ resp'.op = "submit_answer"
          /\ resp'.session_id \in ended )
        => ( /\ resp'.status \in {"error", "exception"}
             /\ sessions' = sessions ) ]_vars

\* C13: a submit_answer from a user who did not start the session ends in an
\* error and records nothing.
C13_OnlyOwnerAnswers ==
    [][ ( /\ resp'.op = "submit_answer"
          /\ resp'.session_id \in DOMAIN started_by
          /\ resp'.caller # started_by[resp'.session_id] )
        => ( /\ resp'.status \in {"error", "exception"}
             /\ sessions' = sessions ) ]_vars

\* C14: an answer submission that names a session id of no session ends in an
\* error and leaves the session stores as they were: no session is created for
\* the id and no answer is recorded.
C14_UnknownSessionRejected ==
    [][ /\ ( /\ resp'.op = "submit_answer"
             /\ resp'.session_id \notin DOMAIN sessions )
           => (resp'.status = "error" /\ sessions' = sessions)
        /\ ( /\ resp'.op = "web_legacy_chat"
             /\ resp'.phase = "predefined"
             /\ resp'.session_id \notin DOMAIN web_sessions )
           => (resp'.status = "error" /\ web_sessions' = web_sessions) ]_vars

\* The sessions in the store that user `caller` started.
SessionsOf(store, caller) ==
    {sid \in DOMAIN store : sid \in DOMAIN started_by /\ started_by[sid] = caller}

\* C15: a start request of a user who has a session in the store resumes it: it
\* returns that session's id and leaves its answers as they are; a start request
\* of a user with no session creates one in phase questionnaire with no answers
\* and no symptom.
C15_StartResumes ==
    [][ resp'.op = "start_assessment"
        => IF SessionsOf(sessions, resp'.caller) # {}
           THEN /\ resp'.session_id \in SessionsOf(sessions, resp'.caller)
                /\ sessions' = sessions
           ELSE /\ resp'.session_id \notin DOMAIN sessions
                /\ resp'.session_id \in DOMAIN sessions'
                /\ Phase(sessions'[resp'.session_id]) = "questionnaire"
                /\ sessions'[resp'.session_id]["answers"] = EmptyDict
                /\ sessions'[resp'.session_id]["detected_symptom"] = None ]_vars

\* What the resolution of a session depends on, by the specification.
ResolverInput(s) ==
    <<Phase(s), Get(s, "detected_symptom", None), s["answers"]>>

\* C16: two sessions that agree on phase, detected symptom and recorded answers
\* get the same outcome (the same next question, or completed) from submit_answer.
C16_OutcomeFunctionOfState ==
    [][ ( /\ resp.op = "submit_answer"
          /\ resp'.op = "submit_answer"
          /\ resp.session_id # resp'.session_id
          /\ resp.status \in {"next", "completed"}
          /\ resp'.status \in {"next", "completed"}
          /\ resp.session_id \in DOMAIN sessions'
          /\ resp'.session_id \in DOMAIN sessions'
          /\ ResolverInput(sessions'[resp.session_id])
                = ResolverInput(sessions'[resp'.session_id]) )
        => ( /\ resp'.status = resp.status
             /\ resp'.question = resp.question ) ]_vars


\* what two submit_answer calls leave and return when the first runs to its end
\* before the second starts
SerialOrder(s, first, second) ==
    LET a == AnswerStep(s, first.question_id, first.answer_json)
        b == AnswerStep(a.session, second.question_id, second.answer_json)
    IN [session |-> b.session,
        first |-> <<a.call.status, a.call.question>>,
        second |-> <<b.call.status, b.call.question>>]

\* the session and the two responses the finished requests of threads t and u
\* gave, set against the serial order in which t's request goes first
IsSerialOrder(t, u) ==
    LET sid == inflight[t].session_id
        o == SerialOrder(round_base[sid], inflight[t], inflight[u])
    IN /\ sessions[sid] = o.session
       /\ <<inflight[t].status, inflight[t].question>> = o.first
       /\ <<inflight[u].status, inflight[u].question>> = o.second

\* C17: two concurrent submit_answer calls for one session do not interleave:
\* once both have returned, the session and the two responses are those of one
\* of the two serial orders of the calls, started from the session as it was
\* when the first of them arrived.
C17_ConcurrentAnswersSerializable ==
    ( /\ inflight["t1"].pc = "done"
      /\ inflight["t2"].pc = "done"
      /\ inflight["t1"].session_id = inflight["t2"].session_id
      /\ inflight["t1"].session_id \in DOMAIN round_base )
    => (IsSerialOrder("t1", "t2") \/ IsSerialOrder("t2", "t1"))

\* C18: sessions share no mutable state: what is done for session A, posting
\* its questionnaire context included, never changes what a later operation on
\* another session B uses. When the llm phase opens B's conversation, the
\* schema it stores is built from the context that was posted for B.
C18_LlmUsesOwnContext ==
    [][ ( /\ resp'.op = "web_legacy_chat"
          /\ resp'.phase = "llm"
          /\ resp'.session_id \notin DOMAIN web_conversation_history
          /\ resp'.session_id \in DOMAIN web_conversation_history' )
        => LET sid == resp'.session_id
           IN /\ sid \in DOMAIN web_submitted
              /\ web_conversation_history'[sid].schema =
                     build_medical_schema(web_submitted[sid]) ]_vars

\* C19: a session's detected_symptom is set at most once: once it has a
\* non-null value, no later submit_answer call (in-memory session) and no later
\* update_session_phase call (assessment_sessions row) changes it.
C19_SymptomSetOnce ==
    [][ /\ \A id \in DOMAIN db \cap DOMAIN db' :
              db[id].detected_symptom # None
              => db'[id].detected_symptom = db[id].detected_symptom
        /\ (resp'.op = "submit_answer" /\ resp'.session_id \in DOMAIN sessions)
           => LET before == Get(sessions[resp'.session_id], "detected_symptom", None)
              IN before # None
                 => Get(sessions'[resp'.session_id], "detected_symptom", None) = before
      ]_vars

\* keyword j of symptom i, lower-cased, occurs in the trimmed lower-cased text
IsHit(symptoms, text, i, j) ==
    /\ i \in 1..Len(symptoms)
    /\ j \in 1..Len(symptoms[i].keywords)
    /\ Contains(Lower(symptoms[i].keywords[j]), Lower(Strip(text)))

\* pair <<i, j>> comes before pair <<k, l>> in catalog order
Before(i, j, k, l) == i < k \/ (i = k /\ j < l)

\* the (symptom, keyword) index pairs of a symptom list
KeywordPairs(symptoms) ==
    { p \in (1..Len(symptoms)) \X (1..2) : p[2] <= Len(symptoms[p[1]].keywords) }

\* C20: detect_symptom returns the match of the first (symptom, keyword) pair,
\* in catalog order of symptoms and of each symptom's keywords, whose
\* lower-cased keyword is a substring of the trimmed lower-cased input, and None
\* when the input is empty or no pair hits; no later symptom and no longer
\* keyword overrides an earlier hit.
C20_FirstHitWins ==
    resp.op = "detect_symptom"
    => LET symptoms == resp.symptoms
           text == resp.complaint_text
           hits == IF Truthy(text)
                   THEN { p \in KeywordPairs(symptoms) :
                            IsHit(symptoms, text.str, p[1], p[2]) }
                   ELSE {}
       IN IF hits = {}
          THEN resp.result = None
          ELSE \E p \in hits :
                 /\ \A q \in hits \ {p} : Before(p[1], p[2], q[1], q[2])
                 /\ resp.result # None
                 /\ resp.result.symptom_id = symptoms[p[1]].symptom_id
                 /\ resp.result.label = symptoms[p[1]].label
                 /\ resp.result.matched_keyword = symptoms[p[1]].keywords[p[2]]
                 /\ resp.result.default_urgency = symptoms[p[1]].default_urgency

\* detect_symptom has returned the earlier of two hits although a later symptom
\* hits too, with a longer keyword
C20_Witness ==
    /\ resp.op = "detect_symptom"
    /\ Truthy(resp.complaint_text)
    /\ \E p, q \in KeywordPairs(resp.symptoms) :
         /\ IsHit(resp.symptoms, resp.complaint_text.str, p[1], p[2])
         /\ IsHit(resp.symptoms, resp.complaint_text.str, q[1], q[2])
         /\ p[1] < q[1]
         /\ Len(resp.symptoms[q[1]].keywords[q[2]])
              > Len(resp.symptoms[p[1]].keywords[p[2]])
         /\ resp.result # None
         /\ resp.result.symptom_id = resp.symptoms[p[1]].symptom_id
         /\ resp.result.symptom_id # resp.symptoms[q[1]].symptom_id

\* some keyword of the symptom list occurs in the trimmed lower-cased text
SomeKeywordOccurs(symptoms, text) ==
    \E p \in KeywordPairs(symptoms) : IsHit(symptoms, text, p[1], p[2])

\* C21: detect_symptom returns None for every input that is empty after
\* trimming (whitespace-only input included) and for every input in which no
\* catalog keyword occurs; a match is returned only when its keyword occurs in
\* the input.
C21_NoneWithoutKeyword ==
    resp.op = "detect_symptom"
    => LET text == resp.complaint_text
           blank == ~Truthy(text) \/ Strip(text.str) = <<>>
       IN /\ blank => resp.result = None
          /\ (~blank /\ ~SomeKeywordOccurs(resp.symptoms, text.str))
                => resp.result = None
          /\ resp.result # None
                => /\ ~blank
                   /\ Contains(Lower(resp.result.matched_keyword),
                               Lower(Strip(text.str)))

\* detect_symptom has returned None for a whitespace-only complaint, and for a
\* complaint without any keyword, on a symptom list that has keywords
C21_Witness ==
    /\ resp.op = "detect_symptom"
    /\ resp.symptoms # <<>>
    /\ resp.complaint_text \in {Str(<<" ">>), Str(TxtFine)}
    /\ resp.result = None

\* the payload has the key with a non-empty value
NonEmpty(answer_data, k) == k \in DOMAIN answer_data /\ Truthy(answer_data[k])

\* the type of a payload, "" where it has none
TypeOf(answer_data) == Get(answer_data, "type", "")

\* C22: for a single_choice payload the extracted value is the first non-empty
\* of (selected option label, selected option id, plain value), in that order:
\* an absent or empty label falls through to the id, an absent or empty id to
\* the plain value.
C22_SingleChoiceFirstNonEmpty ==
    (resp.op = "extract" /\ TypeOf(resp.answer_data) = "single_choice")
    => LET d == resp.answer_data IN
       IF NonEmpty(d, "selected_option_label")
       THEN resp.answer_value = d["selected_option_label"]
       ELSE IF NonEmpty(d, "selected_option_id")
       THEN resp.answer_value = d["selected_option_id"]
       ELSE NonEmpty(d, "value") => resp.answer_value = d["value"]

\* the labels joined with ", " for the lists of up to two labels
JoinedLabels(labels) ==
    IF Len(labels) = 0 THEN <<>>
    ELSE IF Len(labels) = 1 THEN labels[1]
    ELSE labels[1] \o <<",", " ">> \o labels[2]

\* C23: for text and number payloads the extracted value is the value field as
\* submitted; for multi_choice it is the selected option labels joined with
\* ", " in submitted order; for an unknown or missing type it is the plain
\* value field, and the empty string when that field is absent.
C23_ExtractByType ==
    resp.op = "extract"
    => LET d == resp.answer_data
           type == TypeOf(d)
       IN /\ (type \in {"text", "number"} /\ "value" \in DOMAIN d)
                => resp.answer_value = d["value"]
          /\ type = "multi_choice"
                => resp.answer_value =
                     Str(JoinedLabels(Get(d, "selected_option_labels", <<>>)))
          /\ type \notin {"text", "number", "single_choice", "multi_choice"}
                => resp.answer_value =
                     IF "value" \in DOMAIN d THEN d["value"] ELSE Str(<<>>)

\* two labels have been joined, and a payload of unknown type without a value
\* has given the empty string
C23_Witness ==
    /\ resp.op = "extract"
    /\ \/ /\ TypeOf(resp.answer_data) = "multi_choice"
          /\ Get(resp.answer_data, "selected_option_labels", <<>>) = <<TxtB, TxtA>>
          /\ resp.answer_value = Str(<<"B"," ","c",","," ","A">>)
       \/ /\ TypeOf(resp.answer_data) = "date"
          /\ "value" \notin DOMAIN resp.answer_data
          /\ resp.answer_value = Str(<<>>)

\* the symptom the chief complaint of session dict s names
DetectedIn(s) ==
    LET chief_complaint == Get(s["answers"], "q_current_ailment", Str(<<>>))
    IN IF Truthy(chief_complaint) THEN detect_symptom(chief_complaint) ELSE None

\* the decision tree has a follow-up question set for the symptom
HasFollowupSet(symptom_id) ==
    /\ SymptomData(symptom_id) # None
    /\ "followup_questions" \in DOMAIN SymptomData(symptom_id)

\* C24: when the questionnaire ends with a detected symptom for which the
\* decision tree has no follow-up question set, the request fails with an
\* error: it does not return 'completed'.
C24_MissingFollowupSetFails ==
    [][ ( /\ resp'.op = "submit_answer"
          /\ resp'.session_id \in DOMAIN sessions
          /\ resp'.phase = "questionnaire"
          /\ resp'.status # "exception"
          /\ resp'.next_index >= Len(resp'.all_questions)
          /\ DetectedIn(sessions'[resp'.session_id]) # None
          /\ ~HasFollowupSet(DetectedIn(sessions'[resp'.session_id]).symptom_id) )
        => resp'.status = "error" ]_vars

\* C25: end(session) ends the session from any phase and with any number of
\* answers, and for good: a row that expire_session has set to 'expired' is
\* never 'active' again, end_assessment leaves no session under the id, and a
\* session id that was ended never holds a session again.
C25_EndIsIrreversible ==
    [][ /\ \A id \in DOMAIN db \cap DOMAIN db' :
              db[id].status = "expired" => db'[id].status # "active"
        /\ resp'.op = "end_assessment" => resp'.session_id \notin DOMAIN sessions'
        /\ \A session_id \in ended' : session_id \notin DOMAIN sessions' ]_vars

\* C26: between the creation and the end of a session its recorded answers are
\* never removed: no start, submit_answer or session/context request makes the
\* set of answered question ids of a session that stays in the store smaller.
C26_AnswersNeverShrink ==
    [][ resp'.op \in {"start_assessment", "submit_answer", "receive_context"}
        => \A session_id \in DOMAIN sessions \cap DOMAIN sessions' :
              DOMAIN sessions[session_id]["answers"]
                 \subseteq DOMAIN sessions'[session_id]["answers"] ]_vars

\* the five stores cleanup_session deletes from
SessionStores ==
    <<sessions, conversation_history, session_store, followup_sessions, followup_store>>

\* the session id is in at least one of the stores
InSomeStore(stores, session_id) ==
    \E i \in 1..Len(stores) : session_id \in DOMAIN stores[i]

\* C27: end_assessment returns 'ended' if and only if the session id was in at
\* least one session store before the call, and 'not_found' otherwise; after
\* the call the id is in none of the session, follow-up and conversation
\* stores, so that an end_assessment that follows for the same id returns
\* 'not_found'.
C27_EndedIffPresent ==
    [][ resp'.op = "end_assessment"
        => LET session_id == resp'.session_id IN
           /\ resp'.status = IF InSomeStore(SessionStores, session_id)
                             THEN "ended" ELSE "not_found"
           /\ ~InSomeStore(SessionStores', session_id)
           /\ (resp.op = "end_assessment" /\ resp.session_id = session_id)
                 => resp'.status = "not_found" ]_vars

\* end_assessment has returned 'ended' for an id that was in a report or
\* follow-up store and in no questionnaire session
C27_Witness ==
    /\ resp.op = "end_assessment"
    /\ resp.status = "ended"
    /\ resp.session_id \notin ended
    /\ ~InSomeStore(SessionStores, resp.session_id)

\* C28: every response of /assessment/answer has a status that is one of
\* 'next', 'completed' and 'error', and carries a question if and only if the
\* status is 'next'.
C28_ResponseShape ==
    [][ resp'.op = "submit_answer"
        => /\ resp'.status \in {"next", "completed", "error"}
           /\ (resp'.question # NoQuestion) <=> (resp'.status = "next") ]_vars

\* C29: /chat/message persists a message only after validation: for a chat
\* session that does not exist (404), is owned by another user (403) or is not
\* active (400) the request is rejected and no message, of the user or of the
\* assistant, is appended to the history of that session.
C29_RejectedMessageNotPersisted ==
    [][ ( /\ resp'.op = "send_message"
          /\ resp'.caller # "" )
        => LET sid == resp'.session_id IN
           /\ sid \notin DOMAIN chat_sessions
                 => resp'.code \in {400, 404} /\ chat_messages' = chat_messages
           /\ (sid \in DOMAIN chat_sessions
                 /\ chat_sessions[sid].user_id # resp'.caller)
                 => resp'.code \in {400, 403} /\ chat_messages' = chat_messages
           /\ (sid \in DOMAIN chat_sessions
                 /\ chat_sessions[sid].status # "active")
                 => resp'.code \in {400, 403} /\ chat_messages' = chat_messages ]_vars

\* a message for another user's session that has a history was rejected
C29_Witness ==
    /\ resp.op = "send_message"
    /\ resp.code = 403
    /\ resp.session_id \in DOMAIN chat_sessions
    /\ chat_sessions[resp.session_id].user_id # resp.caller
    /\ HistoryOf(chat_messages, resp.session_id) # <<>>

\* C30: /chat/end is a soft end: it changes nothing but the status (to 'ended')
\* and the end time of the session and leaves the message history as it is;
\* 'ended' is absorbing: a repeated end changes nothing, and no /chat/message
\* request appends to the history of an ended session.
C30_SoftEndAbsorbing ==
    [][ /\ resp'.op = "end_chat"
           => /\ chat_messages' = chat_messages
              /\ \A id \in DOMAIN chat_sessions :
                    /\ id \in DOMAIN chat_sessions'
                    /\ chat_sessions'[id].user_id = chat_sessions[id].user_id
                    /\ id # resp'.session_id => chat_sessions'[id] = chat_sessions[id]
              /\ resp'.code = 200 => chat_sessions'[resp'.session_id].status = "ended"
        /\ \A id \in DOMAIN chat_sessions :
              chat_sessions[id].status = "ended"
              => /\ id \in DOMAIN chat_sessions'
                 /\ chat_sessions'[id] = chat_sessions[id]
                 /\ HistoryOf(chat_messages', id) = HistoryOf(chat_messages, id) ]_vars

\* the outcome of an answer call as a client sees it: the next question id, whether
\* the call completed or failed, and the phase and detected symptom it leaves
Outcome(status, question, s) ==
    [question |-> question,
     ended |-> IF status \in {"completed", "error", "exception"} THEN status ELSE "",
     phase |-> Get(s, "phase", "questionnaire"),
     detected_symptom |-> Get(s, "detected_symptom", None)]

\* C31: /web/assessment/answer is an exact replica of /assessment/answer: applied to
\* the same session and the same answer, the S2 handler (either of its two
\* definitions) gives the outcome the S1 handler gives (next question id, completed
\* or error, phase, detected symptom) and leaves the same session behind, so that
\* from equal fresh sessions equal submissions give equal sequences of outcomes.
C31_WebReplicatesS1 ==
    [][ \A store \in {"web", "routes"} :
          LET op == IF store = "web" THEN "web_submit_answer"
                    ELSE "routes_submit_answer"
              before == IF store = "web" THEN web_sessions ELSE routes_sessions
              after == IF store = "web" THEN web_sessions' ELSE routes_sessions'
              sid == resp'.session_id
          IN (resp'.op = op /\ sid \in DOMAIN before) =>
               LET s1 == AnswerStep(before[sid], resp'.question_id, resp'.answer_json)
               IN /\ Outcome(resp'.status, resp'.question, after[sid])
                     = Outcome(s1.call.status, s1.call.question, s1.session)
                  /\ after[sid] = s1.session ]_vars

\* C32: in /chat/message the last element of the history loaded from the store is
\* the user message this request has just saved, and the history passed to the
\* model is exactly the messages that precede that message, also when two requests
\* for the same chat session overlap.
C32_LastIsOwnMessage ==
    \A w \in ChatWorkers :
        chat_inflight[w].pc = "reply"
        => LET r == chat_inflight[w]
               history == r.history
           IN /\ Len(history) = r.saved_at
              /\ history[Len(history)] = [role |-> "user", content |-> r.text]

\* C33: in every reachable state of the in-memory store a session whose phase is
\* followup has a detected symptom, a non-empty followup_keys list with a
\* followup_questions entry for each key, and 0 <= followup_index <
\* len(followup_keys).
C33_FollowupWellFormed ==
    \A session_id \in DOMAIN sessions :
        LET s == sessions[session_id] IN
        Get(s, "phase", "questionnaire") = "followup"
        => /\ "followup_keys" \in DOMAIN s
           /\ Get(s, "detected_symptom", None) # None
           /\ s["followup_keys"] # <<>>
           /\ s["followup_questions"] = s["followup_keys"]
           /\ 0 <= s["followup_index"]
           /\ s["followup_index"] < Len(s["followup_keys"])

\* a submit_answer step of the questionnaire phase on an existing session
QuestionnaireAnswer(session_id) ==
    /\ resp'.op = "submit_answer"
    /\ resp'.session_id = session_id
    /\ session_id \in DOMAIN sessions
    /\ resp'.phase = "questionnaire"

\* C34: for a session driven by start_assessment, submit_answer and end_assessment
\* only, current_index never decreases and, at every submit_answer, lies in
\* 0 .. len(all_questions) - 1 for the question list built at that step, before and
\* after the step, also when the q_gender answer changes during the session.
C34_IndexWithinList ==
    [][ \A session_id \in SessionIds :
          QuestionnaireAnswer(session_id)
          => LET before == sessions[session_id]["current_index"]
                 after == sessions'[session_id]["current_index"]
                 all_questions == resp'.all_questions
             IN /\ before <= after
                /\ 0 <= before /\ before < Len(all_questions)
                /\ 0 <= after /\ after < Len(all_questions) ]_vars

\* C34, amended: current_index never decreases and lies in 0 .. (number of base
\* and conditional questions) - 1; the index submit_answer reads the question list
\* at, next_index, is below the length of the list built at that step whenever a
\* question of the list is returned.
C34_IndexNeverOutOfRange ==
    [][ \A session_id \in SessionIds :
          QuestionnaireAnswer(session_id)
          => LET before == sessions[session_id]["current_index"]
                 after == sessions'[session_id]["current_index"]
                 all_questions == resp'.all_questions
             IN /\ before <= after
                /\ 0 <= before
                /\ after < Len(BaseQuestions) + Len(ConditionalFemale)
                /\ resp'.status = "next" /\ resp'.question \in
                       {all_questions[i] : i \in 1..Len(all_questions)}
                   => /\ after = resp'.next_index
                      /\ after < Len(all_questions)
                      /\ resp'.question = all_questions[after + 1] ]_vars

\* the q_gender answer changed from female to another value after the conditional
\* question had been reached: the index is beyond the list of this step
C34_Witness ==
    /\ resp.op = "submit_answer"
    /\ resp.phase = "questionnaire"
    /\ resp.session_id \in DOMAIN sessions
    /\ resp.question_id = "q_gender"
    /\ resp.status = "completed"
    /\ sessions[resp.session_id]["current_index"] >= Len(resp.all_questions)

\* the longest follow-up question set of the decision tree
LongestFollowup ==
    LET lens == {IF "followup_questions" \in DOMAIN DecisionTree[i]
                 THEN Len(DecisionTree[i].followup_questions) ELSE 0 :
                 i \in 1..Len(DecisionTree)}
    IN CHOOSE n \in lens : \A m \in lens : m <= n

\* the number of submit_answer calls within which the session dict s is sure to
\* have answered "completed"
CallsLeft(s) ==
    IF Get(s, "phase", "questionnaire") = "followup"
    THEN Len(s["followup_keys"]) - s["followup_index"]
    ELSE (Len(BaseQuestions) + Len(ConditionalFemale) - s["current_index"])
         + LongestFollowup

\* C35: every session terminates: from any reachable session state each
\* submit_answer call either answers "completed" or brings the session strictly
\* nearer to it, so that "completed" is received after at most len(base questions)
\* + len(conditional questions) + len(follow-up questions of the detected symptom)
\* further calls.
C35_SessionTerminates ==
    [][ \A session_id \in SessionIds :
          ( /\ resp'.op = "submit_answer"
            /\ resp'.session_id = session_id
            /\ session_id \in DOMAIN sessions )
          => /\ resp'.status \in {"next", "completed"}
             /\ resp'.status = "next"
                   => /\ CallsLeft(sessions'[session_id]) >= 1
                      /\ CallsLeft(sessions'[session_id])
                            < CallsLeft(sessions[session_id])
             /\ CallsLeft(sessions[session_id])
                   <= Len(BaseQuestions) + Len(ConditionalFemale) + LongestFollowup
             /\ Get(sessions'[session_id], "phase", "questionnaire") = "followup"
                   => CallsLeft(sessions'[session_id])
                        <= Len(SymptomData(
                               sessions'[session_id]["detected_symptom"].symptom_id
                           ).followup_questions) ]_vars

\* the state in which submit_answer answers "completed" in the follow-up phase: the
\* last follow-up question has been returned
FollowupCompleted(s) ==
    /\ Get(s, "phase", "questionnaire") = "followup"
    /\ "followup_keys" \in DOMAIN s
    /\ s["followup_index"] + 1 >= Len(s["followup_keys"])

\* C36: completion of the follow-up phase is absorbing: once submit_answer has
\* answered "completed" for a session in phase followup, the session stays as it is
\* until it is ended (phase, detected symptom and followup_index unchanged) and
\* every later submit_answer on it answers "completed".
C36_CompletionAbsorbing ==
    [][ \A session_id \in SessionIds :
          ( /\ session_id \in DOMAIN sessions
            /\ FollowupCompleted(sessions[session_id])
            /\ ~(resp'.op = "end_assessment" /\ resp'.session_id = session_id) )
          => /\ session_id \in DOMAIN sessions'
             /\ FollowupCompleted(sessions'[session_id])
             /\ sessions'[session_id]["followup_index"]
                   = sessions[session_id]["followup_index"]
             /\ sessions'[session_id]["detected_symptom"]
                   = sessions[session_id]["detected_symptom"]
             /\ (resp'.op = "submit_answer" /\ resp'.session_id = session_id)
                   => resp'.status = "completed" ]_vars

\* the standalone follow-up sessions of S1 and of S2
FollowupSessionsOf(store) == {store[session_id] : session_id \in DOMAIN store}

\* C37: in a standalone follow-up session (followup/start, followup/answer) the
\* number of recorded responses equals current_index and 0 <= current_index <=
\* len(question_keys) in every reachable state: answer calls made after the
\* "complete" marker was returned record no response and do not advance the index.
C37_ResponsesMatchIndex ==
    \A session \in FollowupSessionsOf(followup_sessions)
                    \cup FollowupSessionsOf(web_followup_sessions) :
        /\ Len(session.responses) = session.current_index
        /\ 0 <= session.current_index
        /\ session.current_index <= Len(session.question_keys)

\* the outcome the legacy chat handler owes the question_id it was sent, given the
\* question list: the question after it, the first one if it is not in the list,
\* the request for the context after the last one
LegacyOutcome(all_questions, question_id) ==
    LET next_index == IF \E i \in 1..Len(all_questions) : all_questions[i] = question_id
                      THEN CHOOSE i \in 1..Len(all_questions) :
                               all_questions[i] = question_id
                      ELSE 0
    IN IF next_index >= Len(all_questions)
       THEN <<"request_context", NoQuestion>>
       ELSE <<"predefined", all_questions[next_index + 1]>>

\* C38: in the predefined phase of the legacy chat handler the next question is the
\* one that follows the submitted question_id in the list (base questions plus the
\* conditionals the recorded answers trigger): it is a function of the list and the
\* question_id, so a resubmission returns the same question; a question_id that is
\* not in the list returns the first question, the last one the request for the
\* context with no question.
C38_NextFollowsSubmitted ==
    ( /\ resp.op \in {"web_legacy_chat", "chat_submit_answer"}
      /\ resp.phase = "predefined" )
    => /\ resp.status \in {"predefined", "request_context"}
       /\ LET store == IF resp.op = "web_legacy_chat" THEN web_sessions ELSE sessions
          IN <<resp.status, resp.question>>
                 = LegacyOutcome(TriggeredList(store[resp.session_id]["answers"]),
                                 resp.question_id)

====
